---- MODULE Spec2Model ----
(***************************************************************************)
(* A model of the .furry container codec: the binary layout                *)
(* (furry_format), the crypto discipline (furry_crypto), the writer and    *)
(* reader, the converter's pack / unpack and the player's virtual audio    *)
(* stream.                                                                 *)
(*                                                                         *)
(* The file on disk is a 96-byte file header followed by a sequence of     *)
(* pieces; a piece is what one write_all call of the writer puts into the  *)
(* sink: a 40-byte chunk header, a ciphertext or a 16-byte tag.  Byte      *)
(* offsets are computed from the pieces' lengths, so every offset of the   *)
(* code (current_offset, file_offset, index_offset) is a true byte offset. *)
(*                                                                         *)
(* AES-256-GCM, HKDF and the RNG are modelled symbolically: a ciphertext   *)
(* is the term (key, nonce, plaintext), a tag is the term (key, nonce,     *)
(* aad, ciphertext), and decryption succeeds exactly when the tag read     *)
(* equals the tag recomputed from the key, nonce, aad and ciphertext the   *)
(* reader holds (no forgery, no collision).                                *)
(***************************************************************************)
EXTENDS Integers, Sequences, FiniteSets, TLC

\* ------------------------------------------------------------------ bounds
MaxWrites == 2
MaxDataLen == 1
MaxInputLen == 3
MaxChunkSize == 2
MaxPaddingBytes == 2
MaxXorBlocks == 2
MaxXorCalls == 2
MaxEntries == 2
\* the chunks written to a file that is opened before or after finish
MaxUnfinishedWrites == 1
\* the multi-chunk file and the read of the scenarios S3 and S5: input
\* length, chunk_size, seek position and number of bytes read
S5InputLen == 5000
S5ChunkSize == 1024
S5Seek == 2000
S5ReadLen == 100
\* the width in bits the model gives to u64 and i64 where seek casts and adds
OffsetBits == 16

\* ------------------------------------------------------- program constants
FURRY_HEADER_LEN == 96
FURRY_VERSION == 1
CHUNK_HEADER_LEN == 40
CHUNK_HEADER_VERSION == 1
TAG_LEN == 16
INDEX_HEADER_LEN == 32
INDEX_ENTRY_LEN == 48
INDEX_VERSION == 1
FLAG_META_XOR == 1

FURRY_MAGIC == "FURRYFMT"
CHUNK_MAGIC == "FRCK"
INDEX_MAGIC == "FURRYIDX"
AAD_PREFIX == "FURRYAAD"

\* ----------------------------------------------------------------- helpers
Min(a, b) == IF a < b THEN a ELSE b

RECURSIVE SumOver(_, _)
\* the sum of f[i] over a finite set of indices
SumOver(S, f) ==
    IF S = {} THEN 0
    ELSE LET i == CHOOSE x \in S : TRUE IN f[i] + SumOver(S \ {i}, f)

\* ------------------------------------------------------------------- enums
\* enum ChunkType, #[repr(u8)]
ChunkTypeAsU8(t) ==
    CASE t = "Audio" -> 1
      [] t = "Index" -> 2
      [] t = "Meta" -> 3
      [] t = "Padding" -> 4

\* ChunkType::from_u8: "None" stands for Option::None
ChunkTypeFromU8(v) ==
    CASE v = 1 -> "Audio"
      [] v = 2 -> "Index"
      [] v = 3 -> "Meta"
      [] v = 4 -> "Padding"
      [] OTHER -> "None"

\* enum OriginalFormat, #[repr(u8)]
OriginalFormats == {"Unknown", "Wav", "Mp3", "Ogg", "Flac"}

OriginalFormatAsU8(f) ==
    CASE f = "Unknown" -> 0
      [] f = "Wav" -> 1
      [] f = "Mp3" -> 2
      [] f = "Ogg" -> 3
      [] f = "Flac" -> 4

OriginalFormatFromU8(v) ==
    CASE v = 1 -> "Wav"
      [] v = 2 -> "Mp3"
      [] v = 3 -> "Ogg"
      [] v = 4 -> "Flac"
      [] OTHER -> "Unknown"

\* enum MetaKind, #[repr(u16)]
MetaKinds == {"Unknown", "CoverArt", "Lyrics", "Tags"}

MetaKindAsU16(k) ==
    CASE k = "Unknown" -> 0
      [] k = "CoverArt" -> 1
      [] k = "Lyrics" -> 2
      [] k = "Tags" -> 3

MetaKindFromU16(v) ==
    CASE v = 1 -> "CoverArt"
      [] v = 2 -> "Lyrics"
      [] v = 3 -> "Tags"
      [] OTHER -> "Unknown"

\* ------------------------------------------------------------------ crypto
\* A plaintext buffer: its byte length, its bytes (audio, meta, padding) or
\* the serialized index it holds.
Plain(bytes) == [len |-> Len(bytes), bytes |-> bytes, idx |-> <<>>]
EmptyPlain == Plain(<<>>)

\* a buffer of len >= 1 bytes that all equal fill, held as its length and
\* that byte
FilledPlain(len, fill) == [len |-> len, bytes |-> <<fill>>, idx |-> <<>>]

NoKey == [label |-> "none", mk |-> 0, salt |-> 0]
NoNonce == [prefix |-> NoKey, seq |-> 0]

DeriveFileKeys_NoMasterKey(master_key, salt) ==
    [aead_key |-> [label |-> "furry/v1/aead_key", mk |-> 0, salt |-> salt],
     nonce_prefix |-> [label |-> "furry/v1/nonce_prefix", mk |-> 0, salt |-> salt],
     meta_xor_key |-> [label |-> "furry/v1/meta_xor_key", mk |-> 0, salt |-> salt]]

\* derive_file_keys: three HKDF expansions of (salt, master key) under
\* distinct info labels
DeriveFileKeys(master_key, salt) ==
    [aead_key |-> [label |-> "furry/v1/aead_key", mk |-> master_key, salt |-> salt],
     nonce_prefix |-> [label |-> "furry/v1/nonce_prefix", mk |-> master_key, salt |-> salt],
     meta_xor_key |-> [label |-> "furry/v1/meta_xor_key", mk |-> master_key, salt |-> salt]]

\* nonce_for_chunk: nonce_prefix (4 B) || chunk_seq_le (8 B)
NonceForChunk(nonce_prefix, chunk_seq) == [prefix |-> nonce_prefix, seq |-> chunk_seq]

BuildAadV1_NoChunkHeader(file_id, header_version, header_flags, chunk_header_bytes) ==
    <<AAD_PREFIX, header_version, header_flags, file_id, <<>> >>

\* build_aad_v1: "FURRYAAD" || header_version_le || header_flags_le ||
\* file_id || chunk_header_bytes
BuildAadV1(file_id, header_version, header_flags, chunk_header_bytes) ==
    <<AAD_PREFIX, header_version, header_flags, file_id, chunk_header_bytes>>

\* AES-GCM ciphertext of a buffer: as long as the plaintext; the empty
\* plaintext has the empty ciphertext under every key and nonce
CipherOf(aead_key, nonce, plain) ==
    IF plain.len = 0
    THEN [key |-> NoKey, nonce |-> NoNonce, plain |-> EmptyPlain, bad |-> FALSE]
    ELSE [key |-> aead_key, nonce |-> nonce, plain |-> plain, bad |-> FALSE]

\* the GCM tag over (aad, ciphertext) under (key, nonce)
TagOf(aead_key, nonce, aad, ct) ==
    [key |-> aead_key, nonce |-> nonce, aad |-> aad, ct |-> ct, bad |-> FALSE]

\* encrypt_in_place_detached: the buffer becomes the ciphertext, the tag
\* is returned
EncryptInPlaceDetached(aead_key, nonce, aad, plain) ==
    LET ct == CipherOf(aead_key, nonce, plain)
    IN [ciphertext |-> ct, tag |-> TagOf(aead_key, nonce, aad, ct)]

\* decrypt_in_place_detached: CryptoError::Aead unless the tag verifies
DecryptInPlaceDetached(aead_key, nonce, aad, ct, tag) ==
    IF tag = TagOf(aead_key, nonce, aad, ct)
    THEN [ok |-> TRUE, err |-> "", plain |-> ct.plain]
    ELSE [ok |-> FALSE, err |-> "Aead", plain |-> EmptyPlain]

\* the length of the mask buffer of xor_meta_in_place
XOR_MASK_LEN == 1024

RECURSIVE XorBits(_, _, _)
\* the exclusive or of the low `bits` bits of a and b
XorBits(a, b, bits) ==
    IF bits = 0 THEN 0
    ELSE ((a + b) % 2) + 2 * XorBits(a \div 2, b \div 2, bits - 1)

XorU8_Add(a, b) == (a + b) % 256

\* data[offset + i] ^= mask[i], on one byte
XorU8(a, b) == XorBits(a, b, 8)

\* byte number pos (from 0) of the output of the BLAKE3 keyed XOF over
\* "furry/v1/meta_xor" || chunk_seq_le: a fixed function of the key, the
\* chunk_seq and the position, never 0 here
MaskByte(meta_xor_key, chunk_seq, pos) ==
    1 + ((meta_xor_key.mk * 89 + meta_xor_key.salt * 53 + chunk_seq * 31 + pos * 7) % 255)

RECURSIVE XorMetaLoop(_, _, _, _)
\* the while loop of xor_meta_in_place: each turn fills the next n <= 1024
\* bytes of the XOF output into mask and XORs them into data[offset ..]
XorMetaLoop(meta_xor_key, chunk_seq, data, offset) ==
    IF offset < Len(data)
    THEN LET n == Min(Len(data) - offset, XOR_MASK_LEN)
         IN XorMetaLoop(meta_xor_key, chunk_seq,
                [j \in 1..Len(data) |->
                    IF j > offset /\ j <= offset + n
                    THEN XorU8(data[j], MaskByte(meta_xor_key, chunk_seq, j - 1))
                    ELSE data[j]],
                offset + n)
    ELSE data

\* xor_meta_in_place: data after the call
XorMetaInPlace(meta_xor_key, chunk_seq, data) ==
    XorMetaLoop(meta_xor_key, chunk_seq, data, 0)

\* ------------------------------------------------------------ file header
\* FurryHeaderV1::new
FurryHeaderNew(file_id, salt) ==
    [version |-> FURRY_VERSION, header_size |-> FURRY_HEADER_LEN, flags |-> 0,
     fake_header_len |-> 0, file_id |-> file_id, salt |-> salt, kdf_id |-> 1,
     aead_id |-> 1, chunk_header_version |-> 1, index_offset |-> 0,
     index_total_len |-> 0, header_crc32 |-> 0, reserved2 |-> 0]

\* FurryHeaderV1::write_to: the 96 bytes on disk, field by field
FurryHeaderWriteTo(h) ==
    [magic |-> FURRY_MAGIC, version |-> h.version, header_size |-> h.header_size,
     flags |-> h.flags, fake_header_len |-> h.fake_header_len, reserved0 |-> 0,
     file_id |-> h.file_id, salt |-> h.salt, kdf_id |-> h.kdf_id,
     aead_id |-> h.aead_id, chunk_header_version |-> h.chunk_header_version,
     reserved1 |-> 0, index_offset |-> h.index_offset,
     index_total_len |-> h.index_total_len, header_crc32 |-> h.header_crc32,
     reserved2 |-> h.reserved2]

FurryHeaderReadFrom_SizeFirst(b) ==
    LET h == [version |-> b.version, header_size |-> b.header_size, flags |-> b.flags,
              fake_header_len |-> b.fake_header_len, file_id |-> b.file_id,
              salt |-> b.salt, kdf_id |-> b.kdf_id, aead_id |-> b.aead_id,
              chunk_header_version |-> b.chunk_header_version,
              index_offset |-> b.index_offset, index_total_len |-> b.index_total_len,
              header_crc32 |-> b.header_crc32, reserved2 |-> b.reserved2]
    IN IF b.header_size # FURRY_HEADER_LEN
       THEN [ok |-> FALSE, err |-> "InvalidHeaderSize", header |-> h]
       ELSE IF b.version # FURRY_VERSION
            THEN [ok |-> FALSE, err |-> "UnsupportedVersion", header |-> h]
       ELSE IF b.magic # FURRY_MAGIC THEN [ok |-> FALSE, err |-> "InvalidMagic", header |-> h]
       ELSE [ok |-> TRUE, err |-> "", header |-> h]

\* FurryHeaderV1::read_from: magic, version and header_size are checked, in
\* that order; reserved0 and reserved1 are read and dropped
FurryHeaderReadFrom(b) ==
    LET h == [version |-> b.version, header_size |-> b.header_size, flags |-> b.flags,
              fake_header_len |-> b.fake_header_len, file_id |-> b.file_id,
              salt |-> b.salt, kdf_id |-> b.kdf_id, aead_id |-> b.aead_id,
              chunk_header_version |-> b.chunk_header_version,
              index_offset |-> b.index_offset, index_total_len |-> b.index_total_len,
              header_crc32 |-> b.header_crc32, reserved2 |-> b.reserved2]
    IN IF b.magic # FURRY_MAGIC THEN [ok |-> FALSE, err |-> "InvalidMagic", header |-> h]
       ELSE IF b.version # FURRY_VERSION
            THEN [ok |-> FALSE, err |-> "UnsupportedVersion", header |-> h]
       ELSE IF b.header_size # FURRY_HEADER_LEN
            THEN [ok |-> FALSE, err |-> "InvalidHeaderSize", header |-> h]
       ELSE [ok |-> TRUE, err |-> "", header |-> h]

\* FurryHeaderV1::read_from on a source whose read call named by `fail`
\* ("magic", "version", "header_size", or "fields" for a later one) returns
\* an I/O error if it is reached; hr is the result without I/O errors
HeaderReadWithIo(hr, fail) ==
    IF fail = "magic" THEN [hr EXCEPT !.ok = FALSE, !.err = "Io"]
    ELSE IF ~hr.ok /\ hr.err = "InvalidMagic" THEN hr
    ELSE IF fail = "version" THEN [hr EXCEPT !.ok = FALSE, !.err = "Io"]
    ELSE IF ~hr.ok /\ hr.err = "UnsupportedVersion" THEN hr
    ELSE IF fail = "header_size" THEN [hr EXCEPT !.ok = FALSE, !.err = "Io"]
    ELSE IF ~hr.ok THEN hr
    ELSE IF fail = "fields" THEN [hr EXCEPT !.ok = FALSE, !.err = "Io"]
    ELSE hr

FurryHeaderReadFromIo(b, fail) == HeaderReadWithIo(FurryHeaderReadFrom(b), fail)

\* ----------------------------------------------------------- chunk header
\* ChunkRecordHeaderV1::new
ChunkRecordHeaderNew(chunk_type, chunk_seq, virtual_offset, plain_len) ==
    [header_len |-> CHUNK_HEADER_LEN, header_version |-> CHUNK_HEADER_VERSION,
     chunk_type |-> chunk_type, chunk_flags |-> 0, reserved0 |-> 0,
     chunk_seq |-> chunk_seq, virtual_offset |-> virtual_offset,
     plain_len |-> plain_len, reserved1 |-> 0, reserved2 |-> 0]

\* ChunkRecordHeaderV1::write_to: the 40 bytes on disk, field by field
ChunkRecordHeaderWriteTo(h) ==
    [magic |-> CHUNK_MAGIC, header_len |-> h.header_len,
     header_version |-> h.header_version, chunk_type |-> ChunkTypeAsU8(h.chunk_type),
     chunk_flags |-> h.chunk_flags, reserved0 |-> h.reserved0,
     chunk_seq |-> h.chunk_seq, virtual_offset |-> h.virtual_offset,
     plain_len |-> h.plain_len, reserved1 |-> h.reserved1, reserved2 |-> h.reserved2]

\* ChunkRecordHeaderV1::to_bytes: the 40-byte serialization bound by the AAD
ChunkRecordHeaderToBytes(h) ==
    <<CHUNK_MAGIC, h.header_len, h.header_version, ChunkTypeAsU8(h.chunk_type),
      h.chunk_flags, h.reserved0, h.chunk_seq, h.virtual_offset, h.plain_len,
      h.reserved1, h.reserved2>>

\* ChunkRecordHeaderV1::read_from on the 40 bytes b
ChunkRecordHeaderReadFrom(b) ==
    LET t == ChunkTypeFromU8(b.chunk_type)
        h == [header_len |-> b.header_len, header_version |-> b.header_version,
              chunk_type |-> t, chunk_flags |-> b.chunk_flags,
              reserved0 |-> b.reserved0, chunk_seq |-> b.chunk_seq,
              virtual_offset |-> b.virtual_offset, plain_len |-> b.plain_len,
              reserved1 |-> b.reserved1, reserved2 |-> b.reserved2]
    IN IF b.magic # CHUNK_MAGIC
       THEN [ok |-> FALSE, err |-> "InvalidChunkMagic", header |-> h]
       ELSE IF b.header_version # CHUNK_HEADER_VERSION
            THEN [ok |-> FALSE, err |-> "UnsupportedChunkHeaderVersion", header |-> h]
       ELSE IF t = "None"
            THEN [ok |-> FALSE, err |-> "CorruptIndex", header |-> h]
       ELSE IF b.header_len # CHUNK_HEADER_LEN
            THEN [ok |-> FALSE, err |-> "CorruptIndex", header |-> h]
       ELSE [ok |-> TRUE, err |-> "", header |-> h]

\* ChunkRecordHeaderV1::record_len: header + ciphertext + tag
RecordLen(plain_len) == CHUNK_HEADER_LEN + plain_len + TAG_LEN

\* ------------------------------------------------------------------ index
\* IndexEntryV1::new_audio
IndexEntryNewAudio(chunk_seq, file_offset, record_len, plain_len, virtual_offset) ==
    [chunk_seq |-> chunk_seq, file_offset |-> file_offset, record_len |-> record_len,
     plain_len |-> plain_len, virtual_offset |-> virtual_offset,
     chunk_type |-> "Audio", chunk_flags |-> 0, reserved0 |-> 0, meta_kind |-> 0,
     reserved1 |-> 0, reserved2 |-> 0, reserved3 |-> 0]

IndexEntryNewMeta_NoKind(chunk_seq, file_offset, record_len, plain_len, meta_kind, chunk_flags) ==
    [chunk_seq |-> chunk_seq, file_offset |-> file_offset, record_len |-> record_len,
     plain_len |-> plain_len, virtual_offset |-> 0,
     chunk_type |-> "Meta", chunk_flags |-> chunk_flags, reserved0 |-> 0,
     meta_kind |-> 0,
     reserved1 |-> 0, reserved2 |-> 0, reserved3 |-> 0]

\* IndexEntryV1::new_meta
IndexEntryNewMeta(chunk_seq, file_offset, record_len, plain_len, meta_kind, chunk_flags) ==
    [chunk_seq |-> chunk_seq, file_offset |-> file_offset, record_len |-> record_len,
     plain_len |-> plain_len, virtual_offset |-> 0,
     chunk_type |-> "Meta", chunk_flags |-> chunk_flags, reserved0 |-> 0,
     meta_kind |-> MetaKindAsU16(meta_kind),
     reserved1 |-> 0, reserved2 |-> 0, reserved3 |-> 0]

\* IndexEntryV1::new_padding
IndexEntryNewPadding(chunk_seq, file_offset, record_len, plain_len) ==
    [chunk_seq |-> chunk_seq, file_offset |-> file_offset, record_len |-> record_len,
     plain_len |-> plain_len, virtual_offset |-> 0,
     chunk_type |-> "Padding", chunk_flags |-> 0, reserved0 |-> 0, meta_kind |-> 0,
     reserved1 |-> 0, reserved2 |-> 0, reserved3 |-> 0]

\* FurryIndexV1::new
FurryIndexNew(audio_stream_len, original_format) ==
    [header |-> [version |-> INDEX_VERSION, flags |-> 0, entry_count |-> 0,
                 audio_stream_len |-> audio_stream_len,
                 original_format |-> original_format, reserved |-> 0],
     entries |-> <<>>]

\* FurryIndexV1::add_entry
IndexAddEntry(index, entry) ==
    LET es == Append(index.entries, entry)
    IN [header |-> [index.header EXCEPT !.entry_count = Len(es)], entries |-> es]

\* FurryIndexV1::to_bytes: 32 header bytes and 48 bytes per entry, enums as
\* their integer codes
IndexToBytes(index) ==
    [len |-> INDEX_HEADER_LEN + Len(index.entries) * INDEX_ENTRY_LEN,
     bytes |-> <<>>,
     idx |-> << [magic |-> INDEX_MAGIC, version |-> index.header.version,
                 flags |-> index.header.flags,
                 entry_count |-> index.header.entry_count,
                 audio_stream_len |-> index.header.audio_stream_len,
                 original_format |-> OriginalFormatAsU8(index.header.original_format),
                 reserved |-> index.header.reserved,
                 entries |-> [i \in 1..Len(index.entries) |->
                     [index.entries[i] EXCEPT
                         !.chunk_type = ChunkTypeAsU8(index.entries[i].chunk_type)]]] >>]

NoIndex == FurryIndexNew(0, "Unknown")

IndexParse_NoLengthCheck(plain) ==
    IF plain.len < INDEX_HEADER_LEN
    THEN [ok |-> FALSE, err |-> "CorruptIndex", index |-> NoIndex]
    ELSE IF plain.idx = <<>> \/ plain.idx[1].magic # INDEX_MAGIC
    THEN [ok |-> FALSE, err |-> "InvalidIndexMagic", index |-> NoIndex]
    ELSE LET b == plain.idx[1] IN
    IF b.version # INDEX_VERSION
    THEN [ok |-> FALSE, err |-> "UnsupportedIndexVersion", index |-> NoIndex]
    ELSE IF \E i \in 1..Len(b.entries) : ChunkTypeFromU8(b.entries[i].chunk_type) = "None"
    THEN [ok |-> FALSE, err |-> "CorruptIndex", index |-> NoIndex]
    ELSE [ok |-> TRUE, err |-> "",
          index |-> [header |-> [version |-> b.version, flags |-> b.flags,
                                 entry_count |-> b.entry_count,
                                 audio_stream_len |-> b.audio_stream_len,
                                 original_format |-> OriginalFormatFromU8(b.original_format),
                                 reserved |-> b.reserved],
                     entries |-> [i \in 1..Len(b.entries) |->
                         [b.entries[i] EXCEPT
                             !.chunk_type = ChunkTypeFromU8(b.entries[i].chunk_type)]]]]

\* FurryIndexV1::parse of a decrypted payload
IndexParse(plain) ==
    IF plain.len < INDEX_HEADER_LEN
    THEN [ok |-> FALSE, err |-> "CorruptIndex", index |-> NoIndex]
    ELSE IF plain.idx = <<>> \/ plain.idx[1].magic # INDEX_MAGIC
    THEN [ok |-> FALSE, err |-> "InvalidIndexMagic", index |-> NoIndex]
    ELSE LET b == plain.idx[1] IN
    IF b.version # INDEX_VERSION
    THEN [ok |-> FALSE, err |-> "UnsupportedIndexVersion", index |-> NoIndex]
    ELSE IF plain.len # INDEX_HEADER_LEN + b.entry_count * INDEX_ENTRY_LEN
    THEN [ok |-> FALSE, err |-> "CorruptIndex", index |-> NoIndex]
    ELSE IF \E i \in 1..Len(b.entries) : ChunkTypeFromU8(b.entries[i].chunk_type) = "None"
    THEN [ok |-> FALSE, err |-> "CorruptIndex", index |-> NoIndex]
    ELSE [ok |-> TRUE, err |-> "",
          index |-> [header |-> [version |-> b.version, flags |-> b.flags,
                                 entry_count |-> b.entry_count,
                                 audio_stream_len |-> b.audio_stream_len,
                                 original_format |-> OriginalFormatFromU8(b.original_format),
                                 reserved |-> b.reserved],
                     entries |-> [i \in 1..Len(b.entries) |->
                         [b.entries[i] EXCEPT
                             !.chunk_type = ChunkTypeFromU8(b.entries[i].chunk_type)]]]]

RECURSIVE InsertByVirtualOffset(_, _)
\* one step of a stable sort: e goes after every entry whose key is <= its own
InsertByVirtualOffset(sorted, e) ==
    IF sorted = <<>> THEN <<e>>
    ELSE IF sorted[Len(sorted)].virtual_offset <= e.virtual_offset
         THEN Append(sorted, e)
         ELSE Append(InsertByVirtualOffset(SubSeq(sorted, 1, Len(sorted) - 1), e),
                     sorted[Len(sorted)])

RECURSIVE SortByVirtualOffset(_)
\* sort_by_key(|e| e.virtual_offset), a stable sort
SortByVirtualOffset(es) ==
    IF es = <<>> THEN <<>>
    ELSE InsertByVirtualOffset(SortByVirtualOffset(SubSeq(es, 1, Len(es) - 1)), es[Len(es)])

\* FurryIndexV1::audio_entries: the Audio entries, sorted by virtual_offset
AudioEntries(index) ==
    SortByVirtualOffset(SelectSeq(index.entries, LAMBDA e : e.chunk_type = "Audio"))

\* --------------------------------------------------------------- the file
\* A piece of the file body: k is "H" (chunk header, v the 40 bytes as
\* written), "C" (ciphertext, v the ciphertext) or "T" (tag, v the tag).
Piece(k, len, v) == [k |-> k, len |-> len, v |-> v]

RECURSIVE BodyLen(_)
BodyLen(body) ==
    IF body = <<>> THEN 0 ELSE body[1].len + BodyLen(Tail(body))

\* the byte offset at which piece i of the body begins
PieceStart(body, i) == FURRY_HEADER_LEN + BodyLen(SubSeq(body, 1, i - 1))

\* the length of the file in bytes
FileLen(dk) == FURRY_HEADER_LEN + BodyLen(dk.body)

\* write_all(buf) at the end of the file; an empty buffer writes nothing
AppendPiece(body, k, len, v) ==
    IF len = 0 THEN body ELSE Append(body, Piece(k, len, v))

GarbageHeaderBytes ==
    [magic |-> "????", header_len |-> 0, header_version |-> 0, chunk_type |-> 0,
     chunk_flags |-> 0, reserved0 |-> 0, chunk_seq |-> 0, virtual_offset |-> 0,
     plain_len |-> 0, reserved1 |-> 0, reserved2 |-> 0]

GarbageCt == [key |-> NoKey, nonce |-> NoNonce, plain |-> EmptyPlain, bad |-> TRUE]

GarbageTag == [key |-> NoKey, nonce |-> NoNonce, aad |-> <<>>, ct |-> GarbageCt, bad |-> TRUE]

\* the 40 bytes at offset off: a chunk header where one was written, other
\* bytes (which do not start with FRCK) anywhere else
HeaderBytesAt(dk, off) ==
    IF \E i \in 1..Len(dk.body) : dk.body[i].k = "H" /\ PieceStart(dk.body, i) = off
    THEN dk.body[CHOOSE i \in 1..Len(dk.body) :
                    dk.body[i].k = "H" /\ PieceStart(dk.body, i) = off].v
    ELSE GarbageHeaderBytes

\* the n bytes at offset off, as a ciphertext
CiphertextAt(dk, off, n) ==
    IF n = 0 THEN CipherOf(NoKey, NoNonce, EmptyPlain)
    ELSE IF \E i \in 1..Len(dk.body) :
                dk.body[i].k = "C" /\ PieceStart(dk.body, i) = off /\ dk.body[i].len = n
    THEN dk.body[CHOOSE i \in 1..Len(dk.body) :
                    dk.body[i].k = "C" /\ PieceStart(dk.body, i) = off
                    /\ dk.body[i].len = n].v
    ELSE GarbageCt

\* the 16 bytes at offset off, as a tag
TagAt(dk, off) ==
    IF \E i \in 1..Len(dk.body) : dk.body[i].k = "T" /\ PieceStart(dk.body, i) = off
    THEN dk.body[CHOOSE i \in 1..Len(dk.body) :
                    dk.body[i].k = "T" /\ PieceStart(dk.body, i) = off].v
    ELSE GarbageTag

NoRecord ==
    [ok |-> FALSE, err |-> "Io", header |-> ChunkRecordHeaderNew("None", 0, 0, 0),
     ciphertext |-> GarbageCt, tag |-> GarbageTag]

\* the record at off, hr being the result of ChunkRecordHeaderV1::read_from
\* on the 40 bytes there
ReadRecordFrom(dk, off, hr) ==
    IF off + 4 > FileLen(dk) THEN NoRecord
    ELSE IF ~hr.ok /\ hr.err = "InvalidChunkMagic" THEN [NoRecord EXCEPT !.err = hr.err]
    ELSE IF off + CHUNK_HEADER_LEN > FileLen(dk) THEN NoRecord
    ELSE IF ~hr.ok THEN [NoRecord EXCEPT !.err = hr.err]
    ELSE [ok |-> TRUE, err |-> "", header |-> hr.header,
          ciphertext |-> CiphertextAt(dk, off + CHUNK_HEADER_LEN, hr.header.plain_len),
          tag |-> TagAt(dk, off + CHUNK_HEADER_LEN + hr.header.plain_len)]

\* seek(off), ChunkRecordHeaderV1::read_from, read_exact(plain_len),
\* read_exact(TAG_LEN): the record at off as the reader sees it.  read_exact
\* fails with an I/O error when the file ends first.
ReadRecordAt(dk, off) ==
    ReadRecordFrom(dk, off, ChunkRecordHeaderReadFrom(HeaderBytesAt(dk, off)))

\* ----------------------------------------------------------------- writer
NextChunkSeq_Same(chunk_seq) == chunk_seq

\* self.chunk_seq += 1
NextChunkSeq(chunk_seq) == chunk_seq + 1

AudioStreamLenAfter_Always(audio_stream_len, chunk_type, data_len) ==
    audio_stream_len + data_len

\* self.index.header.audio_stream_len += data.len(), for Audio only
AudioStreamLenAfter(audio_stream_len, chunk_type, data_len) ==
    IF chunk_type = "Audio" THEN audio_stream_len + data_len ELSE audio_stream_len

\* FurryWriter::create, after generate_file_id and generate_salt
WriterCreate(master_key, file_id, salt, original_format) ==
    [header |-> FurryHeaderNew(file_id, salt),
     keys |-> DeriveFileKeys(master_key, salt),
     index |-> FurryIndexNew(0, original_format),
     chunk_seq |-> 0,
     current_offset |-> FURRY_HEADER_LEN]

WriteFailPoints == {"none", "header", "ciphertext", "tag"}

\* the three write_all calls of one record; `fail` names the one that
\* returns an I/O error (the ones before it have reached the sink)
\* write_all of an empty buffer makes no write call, so it cannot fail
WriteCanFail(fail, ct_len) == fail = "ciphertext" => ct_len > 0

WriteRecord(body, header_bytes, ct, ct_len, tag, fail) ==
    LET b1 == IF fail = "header" THEN body
              ELSE AppendPiece(body, "H", CHUNK_HEADER_LEN, header_bytes)
        b2 == IF fail \in {"header", "ciphertext"} THEN b1
              ELSE AppendPiece(b1, "C", ct_len, ct)
        b3 == IF fail \in {"header", "ciphertext", "tag"} THEN b2
              ELSE AppendPiece(b2, "T", TAG_LEN, tag)
    IN b3

\* the index entry of a chunk written (the match on chunk_type)
EntryFor(chunk_type, chunk_seq, file_offset, record_len, plain_len, virtual_offset, meta_kind, chunk_flags) ==
    CASE chunk_type = "Audio" ->
           IndexEntryNewAudio(chunk_seq, file_offset, record_len, plain_len, virtual_offset)
      [] chunk_type = "Meta" ->
           IndexEntryNewMeta(chunk_seq, file_offset, record_len, plain_len,
                             MetaKindFromU16(meta_kind), chunk_flags)
      [] chunk_type = "Padding" ->
           IndexEntryNewPadding(chunk_seq, file_offset, record_len, plain_len)

\* FurryWriter::write_chunk_internal.  Returns the writer and the file after
\* the call, whether it returned Ok, and the (nonce, chunk) it encrypted under.
WriteChunkInternal(wr, dk, chunk_type, plain, virtual_offset, meta_kind, chunk_flags, fail) ==
    LET chunk_seq == wr.chunk_seq
        h0 == ChunkRecordHeaderNew(chunk_type, chunk_seq, virtual_offset, plain.len)
        chunk_header == [h0 EXCEPT !.chunk_flags = chunk_flags]
        nonce == NonceForChunk(wr.keys.nonce_prefix, chunk_seq)
        aad == BuildAadV1(wr.header.file_id, wr.header.version, wr.header.flags,
                          ChunkRecordHeaderToBytes(chunk_header))
        enc == EncryptInPlaceDetached(wr.keys.aead_key, nonce, aad, plain)
        file_offset == wr.current_offset
        record_len == RecordLen(chunk_header.plain_len)
        body2 == WriteRecord(dk.body, ChunkRecordHeaderWriteTo(chunk_header),
                             enc.ciphertext, plain.len, enc.tag, fail)
        w1 == [wr EXCEPT !.chunk_seq = NextChunkSeq(chunk_seq)]
        entry == EntryFor(chunk_type, chunk_seq, file_offset, record_len, plain.len,
                          virtual_offset, meta_kind, chunk_flags)
        index1 == [wr.index EXCEPT !.header.audio_stream_len =
                      AudioStreamLenAfter(@, chunk_type, plain.len)]
        w2 == [w1 EXCEPT !.current_offset = @ + record_len,
                         !.index = IndexAddEntry(index1, entry)]
    IN [w |-> IF fail = "none" THEN w2 ELSE w1,
        disk |-> [dk EXCEPT !.body = body2],
        ok |-> fail = "none",
        enc |-> [nonce |-> nonce, chunk_seq |-> chunk_seq, chunk_type |-> chunk_type,
                 plain |-> plain]]

FinishFailPoints == {"none", "header", "ciphertext", "tag", "seek", "patch"}

\* the header on disk after finish, rewritten before the Index record
HeaderAfterFinish_Early(hdr, header2, fail) ==
    IF fail = "none" THEN FurryHeaderWriteTo(header2)
    ELSE [hdr EXCEPT !.index_offset = header2.index_offset]

\* the header on disk after finish: seek(0) and header.write_to come after
\* the Index record; a write_to that fails has written index_offset only
HeaderAfterFinish(hdr, header2, fail) ==
    CASE fail = "none" -> FurryHeaderWriteTo(header2)
      [] fail = "patch" -> [hdr EXCEPT !.index_offset = header2.index_offset]
      [] OTHER -> hdr

\* FurryWriter::finish.  `fail` names the I/O call that returns an error:
\* one of the three write_all calls of the Index record, the seek to 0, or
\* the header rewrite (which then has written index_offset only).
WriterFinish(wr, dk, fail) ==
    LET index_offset == wr.current_offset
        index_data == IndexToBytes(wr.index)
        chunk_seq == wr.chunk_seq
        chunk_header == ChunkRecordHeaderNew("Index", chunk_seq, 0, index_data.len)
        nonce == NonceForChunk(wr.keys.nonce_prefix, chunk_seq)
        aad == BuildAadV1(wr.header.file_id, wr.header.version, wr.header.flags,
                          ChunkRecordHeaderToBytes(chunk_header))
        enc == EncryptInPlaceDetached(wr.keys.aead_key, nonce, aad, index_data)
        body2 == WriteRecord(dk.body, ChunkRecordHeaderWriteTo(chunk_header),
                             enc.ciphertext, index_data.len, enc.tag,
                             IF fail \in {"seek", "patch"} THEN "none" ELSE fail)
        index_total_len == RecordLen(chunk_header.plain_len)
        header2 == [wr.header EXCEPT !.index_offset = index_offset,
                                     !.index_total_len = index_total_len]
        hdr2 == HeaderAfterFinish(dk.hdr, header2, fail)
    IN [disk |-> [hdr |-> hdr2, body |-> body2],
        header |-> header2,
        ok |-> fail = "none",
        enc |-> [nonce |-> nonce, chunk_seq |-> chunk_seq, chunk_type |-> "Index"]]

\* ----------------------------------------------------------------- reader
NoHeader == FurryHeaderNew(0, 0)
NoReader == [header |-> NoHeader, keys |-> DeriveFileKeys(0, 0), index |-> NoIndex]

\* the end of read_and_decrypt_index: `?` on the decryption, then parse
ParseDecrypted(dec) ==
    IF ~dec.ok THEN [ok |-> FALSE, err |-> dec.err, index |-> NoIndex]
    ELSE IndexParse(dec.plain)

\* read_and_decrypt_index from the record rec found at header.index_offset
DecryptIndexRecord(dk, header, keys, rec) ==
    IF ~rec.ok THEN [ok |-> FALSE, err |-> rec.err, index |-> NoIndex]
    ELSE IF rec.header.chunk_type # "Index"
    THEN [ok |-> FALSE, err |-> "CorruptIndex", index |-> NoIndex]
    ELSE IF header.index_offset + RecordLen(rec.header.plain_len) > FileLen(dk)
    THEN [ok |-> FALSE, err |-> "Io", index |-> NoIndex]
    ELSE ParseDecrypted(
            DecryptInPlaceDetached(
                keys.aead_key,
                NonceForChunk(keys.nonce_prefix, rec.header.chunk_seq),
                BuildAadV1(header.file_id, header.version, header.flags,
                           ChunkRecordHeaderToBytes(rec.header)),
                rec.ciphertext, rec.tag))

\* FurryReader::read_and_decrypt_index
ReadAndDecryptIndex(dk, header, keys) ==
    DecryptIndexRecord(dk, header, keys, ReadRecordAt(dk, header.index_offset))

\* the Ok(Self { .. }) of open, or the error of read_and_decrypt_index
ReaderWith(header, keys, ir) ==
    IF ~ir.ok THEN [ok |-> FALSE, err |-> ir.err, reader |-> NoReader]
    ELSE [ok |-> TRUE, err |-> "",
          reader |-> [header |-> header, keys |-> keys, index |-> ir.index]]

\* open after FurryHeaderV1::read_from returned hr
OpenWithHeader(dk, master_key, hr) ==
    IF ~hr.ok THEN [ok |-> FALSE, err |-> hr.err, reader |-> NoReader]
    ELSE ReaderWith(hr.header, DeriveFileKeys(master_key, hr.header.salt),
                    ReadAndDecryptIndex(dk, hr.header,
                                        DeriveFileKeys(master_key, hr.header.salt)))

\* FurryReader::open
ReaderOpen(dk, master_key) == OpenWithHeader(dk, master_key, FurryHeaderReadFrom(dk.hdr))

\* the calls FurryReader::open can make on its source and on the crypto
\* crate; `fail` names the I/O call that returns an error if it is reached
OpenFailPoints ==
    {"none", "seek0", "magic", "version", "header_size", "fields",
     "seek_index", "chunk_header", "ciphertext", "tag"}

\* what open had done when it returned: derive_file_keys called, the seek to
\* index_offset made, the read of the ciphertext made, decryption attempted
Did(derived, sought, ct_read, decrypted) ==
    [derived |-> derived, sought |-> sought, ct_read |-> ct_read, decrypted |-> decrypted]

OpenErr(err, did) == [ok |-> FALSE, err |-> err, reader |-> NoReader, did |-> did]

\* the end of open: the result o of decrypting and parsing the index record
OpenDone(o) == [ok |-> o.ok, err |-> o.err, reader |-> o.reader, did |-> Did(TRUE, TRUE, TRUE, TRUE)]

OpenRecordIo_TypeCheckLast(dk, header, keys, fail, rec) ==
    IF ~rec.ok THEN OpenErr(rec.err, Did(TRUE, TRUE, FALSE, FALSE))
    ELSE IF fail = "ciphertext" /\ rec.header.plain_len > 0
    THEN OpenErr("Io", Did(TRUE, TRUE, TRUE, FALSE))
    ELSE IF header.index_offset + CHUNK_HEADER_LEN + rec.header.plain_len > FileLen(dk)
    THEN OpenErr("Io", Did(TRUE, TRUE, TRUE, FALSE))
    ELSE IF fail = "tag" THEN OpenErr("Io", Did(TRUE, TRUE, TRUE, FALSE))
    ELSE IF header.index_offset + RecordLen(rec.header.plain_len) > FileLen(dk)
    THEN OpenErr("Io", Did(TRUE, TRUE, TRUE, FALSE))
    ELSE IF rec.header.chunk_type # "Index"
    THEN OpenErr("CorruptIndex", Did(TRUE, TRUE, TRUE, TRUE))
    ELSE OpenDone(ReaderWith(header, keys, DecryptIndexRecord(dk, header, keys, rec)))

\* read_and_decrypt_index after ChunkRecordHeaderV1::read_from, rec being
\* the record at index_offset
OpenRecordIo(dk, header, keys, fail, rec) ==
    IF ~rec.ok THEN OpenErr(rec.err, Did(TRUE, TRUE, FALSE, FALSE))
    ELSE IF rec.header.chunk_type # "Index"
    THEN OpenErr("CorruptIndex", Did(TRUE, TRUE, FALSE, FALSE))
    ELSE IF fail = "ciphertext" /\ rec.header.plain_len > 0
    THEN OpenErr("Io", Did(TRUE, TRUE, TRUE, FALSE))
    ELSE IF header.index_offset + CHUNK_HEADER_LEN + rec.header.plain_len > FileLen(dk)
    THEN OpenErr("Io", Did(TRUE, TRUE, TRUE, FALSE))
    ELSE IF fail = "tag" THEN OpenErr("Io", Did(TRUE, TRUE, TRUE, FALSE))
    ELSE IF header.index_offset + RecordLen(rec.header.plain_len) > FileLen(dk)
    THEN OpenErr("Io", Did(TRUE, TRUE, TRUE, FALSE))
    ELSE OpenDone(ReaderWith(header, keys, DecryptIndexRecord(dk, header, keys, rec)))

\* read_and_decrypt_index on a source with an I/O fail point
OpenIndexIo(dk, header, keys, fail) ==
    IF fail \in {"seek_index", "chunk_header"}
    THEN OpenErr("Io", Did(TRUE, TRUE, FALSE, FALSE))
    ELSE OpenRecordIo(dk, header, keys, fail, ReadRecordAt(dk, header.index_offset))

\* open after FurryHeaderV1::read_from returned hr
OpenHeaderIo(dk, master_key, fail, hr) ==
    IF ~hr.ok THEN OpenErr(hr.err, Did(FALSE, FALSE, FALSE, FALSE))
    ELSE OpenIndexIo(dk, hr.header, DeriveFileKeys(master_key, hr.header.salt), fail)

\* FurryReader::open on a source with an I/O fail point
ReaderOpenIo(dk, master_key, fail) ==
    IF fail = "seek0" THEN OpenErr("Io", Did(FALSE, FALSE, FALSE, FALSE))
    ELSE OpenHeaderIo(dk, master_key, fail, FurryHeaderReadFromIo(dk.hdr, fail))

\* read_chunk from the record rec found at entry.file_offset
DecryptRecord(reader, dk, entry, io_fail, rec) ==
    IF io_fail THEN [ok |-> FALSE, err |-> "Io", plain |-> EmptyPlain]
    ELSE IF ~rec.ok THEN [ok |-> FALSE, err |-> rec.err, plain |-> EmptyPlain]
    ELSE IF entry.file_offset + RecordLen(rec.header.plain_len) > FileLen(dk)
    THEN [ok |-> FALSE, err |-> "Io", plain |-> EmptyPlain]
    ELSE DecryptInPlaceDetached(
            reader.keys.aead_key,
            NonceForChunk(reader.keys.nonce_prefix, rec.header.chunk_seq),
            BuildAadV1(reader.header.file_id, reader.header.version,
                       reader.header.flags, ChunkRecordHeaderToBytes(rec.header)),
            rec.ciphertext, rec.tag)

\* FurryReader::read_chunk; io_fail: the seek or a read returns an I/O error
ReadChunk(reader, dk, entry, io_fail) ==
    DecryptRecord(reader, dk, entry, io_fail, ReadRecordAt(dk, entry.file_offset))

HandleOf_Shared(i) == 1

\* the `inner: R` of reader i: every FurryReader owns its source, and two
\* readers on one file hold distinct handles, each with its own cursor
HandleOf(i) == i

\* read_chunk, the seek: the cursor after seek(SeekFrom::Start(entry.file_offset))
ReadChunkSeek(entry) == entry.file_offset

\* read_chunk, ChunkRecordHeaderV1::read_from at the cursor: the header (or
\* the error) and the cursor after it
ReadChunkHeader(dk, cursor) ==
    [rec |-> ReadRecordAt(dk, cursor), cursor |-> Min(cursor + CHUNK_HEADER_LEN, FileLen(dk))]

\* read_chunk, read_exact(&mut ciphertext) at the cursor
ReadChunkCiphertext(dk, cursor, plain_len) ==
    IF cursor + plain_len > FileLen(dk)
    THEN [ok |-> FALSE, ciphertext |-> GarbageCt, cursor |-> FileLen(dk)]
    ELSE [ok |-> TRUE, ciphertext |-> CiphertextAt(dk, cursor, plain_len),
          cursor |-> cursor + plain_len]

\* read_chunk, read_exact(&mut tag) at the cursor
ReadChunkTag(dk, cursor) ==
    IF cursor + TAG_LEN > FileLen(dk)
    THEN [ok |-> FALSE, tag |-> GarbageTag, cursor |-> FileLen(dk)]
    ELSE [ok |-> TRUE, tag |-> TagAt(dk, cursor), cursor |-> cursor + TAG_LEN]

\* read_chunk, the end: nonce and AAD from the header read, decryption of
\* the ciphertext read against the tag read
ReadChunkDecrypt(reader, header, ciphertext, tag) ==
    DecryptInPlaceDetached(
        reader.keys.aead_key,
        NonceForChunk(reader.keys.nonce_prefix, header.chunk_seq),
        BuildAadV1(reader.header.file_id, reader.header.version,
                   reader.header.flags, ChunkRecordHeaderToBytes(header)),
        ciphertext, tag)

\* the size caps of read_latest_meta
MAX_TAGS_BYTES == 262144
MAX_LYRICS_BYTES == 2097152
MAX_COVER_BYTES == 67108864

\* max_plain_len: the match on kind in read_latest_meta
MaxPlainLen_Tags(kind) == MAX_TAGS_BYTES

MaxPlainLen(kind) ==
    CASE kind = "Tags" -> MAX_TAGS_BYTES
      [] kind = "Lyrics" -> MAX_LYRICS_BYTES
      [] kind = "CoverArt" -> MAX_COVER_BYTES
      [] kind = "Unknown" -> MAX_TAGS_BYTES

RECURSIVE InsertByChunkSeq(_, _)
\* one step of a stable sort: e goes after every entry whose key is <= its own
InsertByChunkSeq(sorted, e) ==
    IF sorted = <<>> THEN <<e>>
    ELSE IF sorted[Len(sorted)].chunk_seq <= e.chunk_seq
         THEN Append(sorted, e)
         ELSE Append(InsertByChunkSeq(SubSeq(sorted, 1, Len(sorted) - 1), e),
                     sorted[Len(sorted)])

RECURSIVE SortByChunkSeq(_)
SortByChunkSeq(es) ==
    IF es = <<>> THEN <<>>
    ELSE InsertByChunkSeq(SortByChunkSeq(SubSeq(es, 1, Len(es) - 1)), es[Len(es)])

\* FurryIndexV1::meta_entries_by_kind: the Meta entries whose meta_kind is
\* that of kind, the one with the greatest chunk_seq last
MetaEntriesByKind(index, kind) ==
    SortByChunkSeq(SelectSeq(index.entries,
        LAMBDA e : e.chunk_type = "Meta" /\ e.meta_kind = MetaKindAsU16(kind)))

NoEntry == IndexEntryNewPadding(0, 0, 0, 0)

LatestOf_First(es) ==
    IF es = <<>> THEN [some |-> FALSE, entry |-> NoEntry]
    ELSE [some |-> TRUE, entry |-> es[1]]

\* .last().map(|e| (*e).clone()) in read_latest_meta
LatestOf(es) ==
    IF es = <<>> THEN [some |-> FALSE, entry |-> NoEntry]
    ELSE [some |-> TRUE, entry |-> es[Len(es)]]

\* Ok(None) of read_latest_meta: nothing was sought, read or decrypted
MetaNone == [ok |-> TRUE, err |-> "", some |-> FALSE, plain |-> EmptyPlain, reads |-> 0]

\* Ok(Some(self.read_chunk(&entry)?)), r being the result of read_chunk
MetaSome(r) ==
    IF ~r.ok THEN [ok |-> FALSE, err |-> r.err, some |-> FALSE, plain |-> EmptyPlain, reads |-> 1]
    ELSE [ok |-> TRUE, err |-> "", some |-> TRUE, plain |-> r.plain, reads |-> 1]

\* read_latest_meta after the entry was selected
ReadLatestMetaOf(reader, dk, kind, io_fail, sel) ==
    IF ~sel.some THEN MetaNone
    ELSE IF sel.entry.plain_len > MaxPlainLen(kind) THEN MetaNone
    ELSE MetaSome(ReadChunk(reader, dk, sel.entry, io_fail))

\* FurryReader::read_latest_meta; io_fail: the seek or a read of read_chunk
\* returns an I/O error
ReadLatestMeta(reader, dk, kind, io_fail) ==
    ReadLatestMetaOf(reader, dk, kind, io_fail,
                     LatestOf(MetaEntriesByKind(reader.index, kind)))

\* -------------------------------------------------------------- converter
RECURSIVE ReadFullLoop(_, _, _, _)
\* the while loop of read_full: `avail` bytes are left in the source, which
\* hands out at most max_read bytes per read call (short reads)
ReadFullLoop(avail, buf_len, total, max_read) ==
    IF total < buf_len
    THEN LET n == Min(max_read, Min(buf_len - total, avail))
         IN IF n = 0 THEN total
            ELSE ReadFullLoop(avail - n, buf_len, total + n, max_read)
    ELSE total

\* read_full: the number of bytes put into the buffer
ReadFull(avail, buf_len, max_read) == ReadFullLoop(avail, buf_len, 0, max_read)

PaddingChunkSize_Whole(remaining, padding_chunk_size) == padding_chunk_size

\* remaining.min(options.padding_chunk_size as u64) as usize
PaddingChunkSize(remaining, padding_chunk_size) == Min(remaining, padding_chunk_size)

\* the bytes generate_random_bytes puts into a padding buffer
RandomBytes(size) == [i \in 1..size |-> 255]

RECURSIVE UnpackLoop(_, _, _, _)
\* one iteration of the for loop of unpack_from_furry, r being the result of
\* read_chunk: `?`, then write_all to the output
UnpackStep(reader, dk, entries, out, r) ==
    IF ~r.ok
    THEN [ok |-> FALSE, err |-> r.err, out |-> out, original_format |-> "Unknown"]
    ELSE UnpackLoop(reader, dk, Tail(entries), out \o r.plain.bytes)

\* the for loop of unpack_from_furry over the audio entries
UnpackLoop(reader, dk, entries, out) ==
    IF entries = <<>>
    THEN [ok |-> TRUE, err |-> "", out |-> out,
          original_format |-> reader.index.header.original_format]
    ELSE UnpackStep(reader, dk, entries, out, ReadChunk(reader, dk, entries[1], FALSE))

\* unpack_from_furry after FurryReader::open returned o
UnpackOpened(dk, o) ==
    IF ~o.ok
    THEN [ok |-> FALSE, err |-> o.err, out |-> <<>>, original_format |-> "Unknown"]
    ELSE UnpackLoop(o.reader, dk, AudioEntries(o.reader.index), <<>>)

\* unpack_from_furry (the source and the output return no I/O error)
UnpackFromFurry(dk, master_key) == UnpackOpened(dk, ReaderOpen(dk, master_key))

\* ---------------------------------------------------------- virtual stream
RECURSIVE BinarySearch(_, _, _, _)
\* slice::binary_search_by over entries[left+1 .. right] (0-based half-open
\* [left, right)) with the comparator of find_chunk_index; 0 stands for None,
\* i >= 1 for Some(i - 1)
BinarySearch(entries, virtual_offset, left, right) ==
    IF left >= right THEN 0
    ELSE LET mid == left + (right - left) \div 2
             start == entries[mid + 1].virtual_offset
             end == start + entries[mid + 1].plain_len
         IN IF virtual_offset < start
            THEN BinarySearch(entries, virtual_offset, left, mid)
            ELSE IF virtual_offset >= end
            THEN BinarySearch(entries, virtual_offset, mid + 1, right)
            ELSE mid + 1

FindChunkIndex_First(entries, virtual_offset) ==
    IF entries = <<>> THEN 0 ELSE 1

\* VirtualAudioStream::find_chunk_index
FindChunkIndex(entries, virtual_offset) ==
    BinarySearch(entries, virtual_offset, 0, Len(entries))

NoStream ==
    [open |-> FALSE, reader |-> NoReader, audio_entries |-> <<>>, total_len |-> 0,
     position |-> 0, cached |-> FALSE, cache_data |-> <<>>, cache_start |-> 0]

\* VirtualAudioStream::open
StreamOpen(dk, master_key) ==
    LET o == ReaderOpen(dk, master_key) IN
    IF ~o.ok THEN [ok |-> FALSE, err |-> o.err, vs |-> NoStream]
    ELSE [ok |-> TRUE, err |-> "",
          vs |-> [open |-> TRUE, reader |-> o.reader,
                  audio_entries |-> AudioEntries(o.reader.index),
                  total_len |-> o.reader.index.header.audio_stream_len,
                  position |-> 0, cached |-> FALSE, cache_data |-> <<>>,
                  cache_start |-> 0]]

NeedLoad_Always(s) == TRUE

\* the need_load test of ensure_chunk_loaded
NeedLoad(s) ==
    IF ~s.cached THEN TRUE
    ELSE s.position < s.cache_start \/ s.position >= s.cache_start + Len(s.cache_data)

\* ensure_chunk_loaded, were it to take the cached chunk out before
\* read_chunk is called
EnsureChunkLoaded_CacheTaken(s, dk, io_fail) ==
    IF s.position >= s.total_len THEN [ok |-> TRUE, err |-> "", vs |-> s, loads |-> 0]
    ELSE IF ~NeedLoad(s) THEN [ok |-> TRUE, err |-> "", vs |-> s, loads |-> 0]
    ELSE LET chunk_idx == FindChunkIndex(s.audio_entries, s.position) IN
         IF chunk_idx = 0 THEN [ok |-> FALSE, err |-> "SeekOutOfBounds", vs |-> s, loads |-> 0]
         ELSE LET entry == s.audio_entries[chunk_idx]
                  r == ReadChunk(s.reader, dk, entry, io_fail)
              IN IF ~r.ok THEN [ok |-> FALSE, err |-> r.err,
                                vs |-> [s EXCEPT !.cached = FALSE, !.cache_data = <<>>,
                                                 !.cache_start = 0],
                                loads |-> 1]
                 ELSE [ok |-> TRUE, err |-> "",
                       vs |-> [s EXCEPT !.cached = TRUE, !.cache_data = r.plain.bytes,
                                        !.cache_start = entry.virtual_offset],
                       loads |-> 1]

\* VirtualAudioStream::ensure_chunk_loaded; `loads` counts the read_chunk calls
EnsureChunkLoaded(s, dk, io_fail) ==
    IF s.position >= s.total_len THEN [ok |-> TRUE, err |-> "", vs |-> s, loads |-> 0]
    ELSE IF ~NeedLoad(s) THEN [ok |-> TRUE, err |-> "", vs |-> s, loads |-> 0]
    ELSE LET chunk_idx == FindChunkIndex(s.audio_entries, s.position) IN
         IF chunk_idx = 0 THEN [ok |-> FALSE, err |-> "SeekOutOfBounds", vs |-> s, loads |-> 0]
         ELSE LET entry == s.audio_entries[chunk_idx]
                  r == ReadChunk(s.reader, dk, entry, io_fail)
              IN IF ~r.ok THEN [ok |-> FALSE, err |-> r.err, vs |-> s, loads |-> 1]
                 ELSE [ok |-> TRUE, err |-> "",
                       vs |-> [s EXCEPT !.cached = TRUE, !.cache_data = r.plain.bytes,
                                        !.cache_start = entry.virtual_offset],
                       loads |-> 1]

ToRead_Available(buf_len, available) == available

\* let to_read = buf.len().min(available)
ToRead(buf_len, available) == Min(buf_len, available)

\* impl Read for VirtualAudioStream: read(buf) with buf.len() = buf_len
StreamRead(s, dk, buf_len, io_fail) ==
    IF s.position >= s.total_len
    THEN [ok |-> TRUE, err |-> "", n |-> 0, bytes |-> <<>>, vs |-> s, loads |-> 0]
    ELSE LET e == EnsureChunkLoaded(s, dk, io_fail) IN
         IF ~e.ok
         THEN [ok |-> FALSE, err |-> e.err, n |-> 0, bytes |-> <<>>, vs |-> e.vs,
               loads |-> e.loads]
         ELSE LET offset_in_chunk == e.vs.position - e.vs.cache_start
                  available == Len(e.vs.cache_data) - offset_in_chunk
                  to_read == ToRead(buf_len, available)
              IN [ok |-> TRUE, err |-> "", n |-> to_read,
                  bytes |-> SubSeq(e.vs.cache_data, offset_in_chunk + 1,
                                   offset_in_chunk + to_read),
                  vs |-> [e.vs EXCEPT !.position = @ + to_read],
                  loads |-> e.loads]

\* the largest u64, the largest and the smallest i64
U64_MAX == 2^OffsetBits - 1
I64_MAX == 2^(OffsetBits - 1) - 1
I64_MIN == 0 - 2^(OffsetBits - 1)

\* `x as i64` for a u64 x: the same bits, read as two's complement
AsI64(x) == IF x > I64_MAX THEN x - 2^OffsetBits ELSE x

\* the i64 a wrapping addition gives for the exact sum x
WrapI64(x) == ((x - I64_MIN) % 2^OffsetBits) + I64_MIN

\* the exact sum of the addition seek makes, which overflows i64 when it
\* lies outside I64_MIN..I64_MAX (Start adds nothing)
SeekSum(s, whence, offset) ==
    CASE whence = "Start" -> AsI64(offset)
      [] whence = "End" -> AsI64(s.total_len) + offset
      [] whence = "Current" -> AsI64(s.position) + offset

\* the addition overflows: a panic with overflow checks (debug builds), a
\* wrapped sum without them (release builds)
SeekOverflows(s, whence, offset) ==
    SeekSum(s, whence, offset) < I64_MIN \/ SeekSum(s, whence, offset) > I64_MAX

\* impl Seek for VirtualAudioStream: new_pos, the target position of
\* seek(pos) as the i64 the match computes
SeekTarget(s, whence, offset) == WrapI64(SeekSum(s, whence, offset))

\* impl Seek for VirtualAudioStream
StreamSeek(s, whence, offset) ==
    LET new_pos == SeekTarget(s, whence, offset) IN
    IF new_pos < 0 THEN [ok |-> FALSE, err |-> "InvalidInput", vs |-> s]
    ELSE [ok |-> TRUE, err |-> "", vs |-> [s EXCEPT !.position = new_pos]]

\* ------------------------------------------------------------------ state
VARIABLES
    w,        \* the FurryWriter: header, keys, index, chunk_seq, current_offset
    wst,      \* "none" (not created), "open", "finished" (finish returned Ok),
              \* "dropped" (finish or create returned Err)
    disk,     \* the file: hdr (the 96 header bytes), body (the pieces after it)
    encLog,   \* one record per encrypt_in_place_detached call of the writer
    rd,       \* a FurryReader on the file: open, r
    res,      \* the result of the last reader call
    tamper,   \* the single change made to the finished file, if any
    pk,       \* pack_to_furry: its arguments, locals and position
    ref,      \* the file pack would have produced with padding_bytes = 0
    unp,      \* the result of unpack_from_furry on the packed file
    vs,       \* a VirtualAudioStream on the packed file
    acc,      \* the bytes read from the stream since it was last positioned
    mlog,     \* one record per write_meta_chunk call: its arguments and result
    calc,     \* a function of the crates applied to arguments: fn, args, out
    rs,       \* two FurryReaders on the file, each with its read_chunk call in progress
    fh,       \* the cursor of each file handle the readers hold
    dlog,     \* the chunks the stream decrypted since it was opened or repositioned
    sres      \* the result of the last read or seek call on the stream

vars == <<w, wst, disk, encLog, rd, res, tamper, pk, ref, unp, vs, acc, mlog, calc, rs, fh, dlog, sres>>

MASTER_KEY == 1
FileIds == {11}
Salts == {21}

\* the original_format, virtual offsets and META arguments callers pass to
\* the writer
WriterFormats == {"Mp3"}
VirtualOffsets == {0, MaxDataLen}
MetaArgs == {<<"Tags", 0>>, <<"CoverArt", FLAG_META_XOR>>}

\* the byte strings callers hand to the writer
Datas == {[i \in 1..n |-> i] : n \in 0..MaxDataLen}

NoRes ==
    [op |-> "none", ok |-> FALSE, err |-> "", off |-> 0, plain |-> EmptyPlain,
     some |-> FALSE, kind |-> "Unknown", io_fail |-> "none", reads |-> 0,
     master_key |-> 0, did |-> Did(FALSE, FALSE, FALSE, FALSE)]
NoTamper == [kind |-> "none", field |-> "", off |-> 0, piece |-> 0]
NoDisk == [hdr |-> FurryHeaderWriteTo(NoHeader), body |-> <<>>]
NoWriter == WriterCreate(0, 0, 0, "Unknown")
NoPack ==
    [pc |-> "none", input |-> <<>>, original_format |-> "Unknown", chunk_size |-> 0,
     padding_bytes |-> 0, padding_chunk_size |-> 0, meta |-> <<>>,
     in_pos |-> 0, virtual_offset |-> 0, remaining |-> 0, pad_count |-> 0]
NoUnpack == [done |-> FALSE, ok |-> FALSE, err |-> "", out |-> <<>>,
             original_format |-> "Unknown"]
NoAcc == [from |-> 0, bytes |-> <<>>]
NoCalc == [fn |-> "none", args |-> <<>>, out |-> <<>>, n |-> 0]
Readers == {1, 2}
NoOut == [ok |-> FALSE, err |-> "", plain |-> EmptyPlain]
NoReaderCall ==
    [open |-> FALSE, r |-> NoReader, pc |-> "idle", entry |-> NoEntry,
     header |-> NoRecord.header, ciphertext |-> GarbageCt, done |-> FALSE,
     out |-> NoOut, overlapped |-> FALSE]
NoReaders == [i \in Readers |-> NoReaderCall]
NoHandles == [h \in Readers |-> 0]
NoDlog == [fresh |-> TRUE, cold |-> TRUE, chunks |-> <<>>]
NoSres ==
    [op |-> "none", ok |-> FALSE, err |-> "", n |-> 0, buf_len |-> 0, bytes |-> <<>>,
     whence |-> "", offset |-> 0, loads |-> 0, before |-> NoStream, errs |-> {}]

\* the state after FurryWriter::create returned Ok
Init ==
    /\ \E file_id \in FileIds, salt \in Salts, fmt \in WriterFormats :
          /\ w = WriterCreate(MASTER_KEY, file_id, salt, fmt)
          /\ disk = [hdr |-> FurryHeaderWriteTo(FurryHeaderNew(file_id, salt)),
                     body |-> <<>>]
    /\ wst = "open"
    /\ encLog = <<>>
    /\ rd = [open |-> FALSE, r |-> NoReader]
    /\ res = NoRes
    /\ tamper = NoTamper
    /\ pk = NoPack
    /\ ref = NoDisk
    /\ unp = NoUnpack
    /\ vs = NoStream
    /\ acc = NoAcc
    /\ mlog = <<>>
    /\ sres = NoSres
    /\ dlog = NoDlog
    /\ fh = NoHandles
    /\ rs = NoReaders
    /\ calc = NoCalc

\* one call of write_chunk_internal on the writer of the state
DoWrite(chunk_type, plain, virtual_offset, meta_kind, chunk_flags, fail) ==
    LET r == WriteChunkInternal(w, disk, chunk_type, plain, virtual_offset,
                                meta_kind, chunk_flags, fail)
    IN /\ w' = r.w
       /\ disk' = r.disk
       /\ encLog' = Append(encLog, [nonce |-> r.enc.nonce, chunk_seq |-> r.enc.chunk_seq,
                                    chunk_type |-> r.enc.chunk_type, ok |-> r.ok])

\* FurryWriter::write_audio_chunk(data, virtual_offset)
WriteAudioChunk ==
    /\ wst = "open" /\ pk.pc = "none" /\ w.chunk_seq < MaxWrites
    /\ \E data \in Datas, virtual_offset \in VirtualOffsets, fail \in WriteFailPoints :
          /\ WriteCanFail(fail, Len(data))
          /\ DoWrite("Audio", Plain(data), virtual_offset, 0, 0, fail)
    /\ UNCHANGED <<sres, dlog, fh, rs, mlog, calc, wst, rd, res, tamper, pk, ref, unp, vs, acc>>

\* FurryWriter::write_meta_chunk(kind, data, chunk_flags)
WriteMetaChunk ==
    /\ wst = "open" /\ pk.pc = "none" /\ w.chunk_seq < MaxWrites
    /\ \E m \in MetaArgs, data \in Datas, fail \in WriteFailPoints :
          /\ WriteCanFail(fail, Len(data))
          /\ DoWrite("Meta", Plain(data), 0, MetaKindAsU16(m[1]), m[2], fail)
    /\ UNCHANGED <<sres, dlog, fh, rs, mlog, calc, wst, rd, res, tamper, pk, ref, unp, vs, acc>>

\* FurryWriter::write_padding_chunk(size); generate_random_bytes may fail
\* first, and then nothing else happens
WritePaddingChunk ==
    /\ wst = "open" /\ pk.pc = "none" /\ w.chunk_seq < MaxWrites
    /\ \E size \in 0..MaxDataLen, fail \in WriteFailPoints \cup {"random"} :
          IF fail = "random"
          THEN UNCHANGED <<w, disk, encLog>>
          ELSE WriteCanFail(fail, size) /\ DoWrite("Padding", Plain(RandomBytes(size)), 0, 0, 0, fail)
    /\ UNCHANGED <<sres, dlog, fh, rs, mlog, calc, wst, rd, res, tamper, pk, ref, unp, vs, acc>>

\* FurryWriter::finish on the writer of the state
DoFinish(fail) ==
    LET r == WriterFinish(w, disk, fail)
    IN /\ disk' = r.disk
       /\ w' = [w EXCEPT !.header = IF fail \in {"none", "seek", "patch"}
                                    THEN r.header ELSE @]
       /\ wst' = IF r.ok THEN "finished" ELSE "dropped"
       /\ encLog' = Append(encLog, [nonce |-> r.enc.nonce, chunk_seq |-> r.enc.chunk_seq,
                                    chunk_type |-> r.enc.chunk_type, ok |-> r.ok])

\* FurryWriter::finish
Finish ==
    /\ wst = "open" /\ pk.pc = "none"
    /\ \E fail \in FinishFailPoints : DoFinish(fail)
    /\ UNCHANGED <<sres, dlog, fh, rs, mlog, calc, rd, res, tamper, pk, ref, unp, vs, acc>>

\* FurryReader::open(file, master_key)
Open ==
    /\ wst \in {"finished", "dropped"}
    /\ pk.pc \in {"none", "done", "failed"}
    /\ LET o == ReaderOpen(disk, MASTER_KEY)
       IN /\ rd' = [open |-> o.ok, r |-> o.reader]
          /\ res' = [NoRes EXCEPT !.op = "open", !.ok = o.ok, !.err = o.err]
    /\ UNCHANGED <<sres, dlog, fh, rs, mlog, calc, w, wst, disk, encLog, tamper, pk, ref, unp, vs, acc>>

\* FurryReader::read_chunk(entry), for an entry of the reader's index
ReadChunkCall ==
    /\ rd.open
    /\ \E i \in 1..Len(rd.r.index.entries) :
          LET entry == rd.r.index.entries[i]
              r == ReadChunk(rd.r, disk, entry, FALSE)
          IN res' = [NoRes EXCEPT !.op = "read_chunk", !.ok = r.ok, !.err = r.err,
                                  !.off = entry.file_offset, !.plain = r.plain]
    /\ UNCHANGED <<sres, dlog, fh, rs, mlog, calc, w, wst, disk, encLog, rd, tamper, pk, ref, unp, vs, acc>>

Next ==
    \/ WriteAudioChunk
    \/ WriteMetaChunk
    \/ WritePaddingChunk
    \/ Finish

Spec == Init /\ [][Next]_vars

\* ------------------------------------------------------------ pack_to_furry
\* what extract_meta_from_path found: the META chunks pack writes, in order
MetaPlans == {<<>>, <<"Tags">>, <<"CoverArt", "Lyrics">>}

\* the payload of a META chunk written by pack
MetaPayload(kind) == <<MetaKindAsU16(kind)>>

\* the iterations of the padding loop that are followed
MaxPadCount == MaxPaddingBytes + 1

\* the arguments of a pack_to_furry call
PackArgs(input_lens, formats, chunk_sizes, paddings, plans) ==
    {[NoPack EXCEPT !.pc = "create", !.input = [i \in 1..n |-> i],
                    !.original_format = fmt, !.chunk_size = c,
                    !.padding_bytes = pd[1], !.padding_chunk_size = pd[2],
                    !.meta = plan] :
        n \in input_lens, fmt \in formats, c \in chunk_sizes, pd \in paddings,
        plan \in plans}

\* the state in which pack_to_furry is called with args
InitWith(args) ==
    /\ pk \in args
    /\ w = NoWriter
    /\ wst = "none"
    /\ disk = NoDisk
    /\ encLog = <<>>
    /\ rd = [open |-> FALSE, r |-> NoReader]
    /\ res = NoRes
    /\ tamper = NoTamper
    /\ ref = NoDisk
    /\ unp = NoUnpack
    /\ vs = NoStream
    /\ acc = NoAcc
    /\ mlog = <<>>
    /\ sres = NoSres
    /\ dlog = NoDlog
    /\ fh = NoHandles
    /\ rs = NoReaders
    /\ calc = NoCalc

\* every input length, chunk_size, padding and META plan for one format, and
\* every format for one of them
InitPack ==
    InitWith(PackArgs(0..MaxInputLen, {"Mp3"}, 0..MaxChunkSize,
                      (0..MaxPaddingBytes) \X (0..MaxPaddingBytes), MetaPlans)
             \cup PackArgs({MaxInputLen}, OriginalFormats, {MaxChunkSize},
                           {<<0, 0>>}, {<<>>}))

\* FurryWriter::create in pack_to_furry (line 78); create fails when the
\* header cannot be written
PackCreate ==
    /\ pk.pc = "create"
    /\ \E file_id \in FileIds, salt \in Salts, fail \in {"none", "header"} :
          IF fail = "none"
          THEN /\ w' = WriterCreate(MASTER_KEY, file_id, salt, pk.original_format)
               /\ disk' = [hdr |-> FurryHeaderWriteTo(FurryHeaderNew(file_id, salt)),
                           body |-> <<>>]
               /\ wst' = "open"
               /\ pk' = [pk EXCEPT !.pc = IF pk.meta = <<>> THEN "audio" ELSE "meta"]
          ELSE /\ pk' = [pk EXCEPT !.pc = "failed"]
               /\ UNCHANGED <<w, disk, wst>>
    /\ UNCHANGED <<sres, dlog, fh, rs, mlog, calc, encLog, rd, res, tamper, ref, unp, vs, acc>>

\* one `let _ = writer.write_meta_chunk(kind, payload, 0)` of pack_to_furry:
\* the result of the call is dropped
PackMeta ==
    /\ pk.pc = "meta"
    /\ \E fail \in WriteFailPoints :
          /\ WriteCanFail(fail, Len(MetaPayload(Head(pk.meta))))
          /\ DoWrite("Meta", Plain(MetaPayload(Head(pk.meta))), 0,
                     MetaKindAsU16(Head(pk.meta)), 0, fail)
    /\ pk' = [pk EXCEPT !.meta = Tail(@),
                        !.pc = IF Tail(pk.meta) = <<>> THEN "audio" ELSE "meta"]
    /\ UNCHANGED <<sres, dlog, fh, rs, mlog, calc, wst, rd, res, tamper, ref, unp, vs, acc>>

\* the most the source returns per read call (short reads): any number of
\* bytes into the small buffers, half a buffer or a whole one into large ones
MaxReads(chunk_size) ==
    IF chunk_size <= MaxChunkSize THEN 1..(MaxChunkSize + 1)
    ELSE {chunk_size \div 2, chunk_size}

\* one iteration of the audio loop of pack_to_furry: read_full into the
\* chunk_size buffer, break at 0 bytes, else write_audio_chunk.  max_read is
\* the most the source returns per read call, io_fail a read error.
PackAudio ==
    /\ pk.pc = "audio"
    /\ \E max_read \in MaxReads(pk.chunk_size), io_fail \in BOOLEAN, fail \in WriteFailPoints :
          LET bytes_read == ReadFull(Len(pk.input) - pk.in_pos, pk.chunk_size, max_read)
              data == SubSeq(pk.input, pk.in_pos + 1, pk.in_pos + bytes_read)
          IN IF io_fail
             THEN /\ fail = "none"
                  /\ pk' = [pk EXCEPT !.pc = "failed"]
                  /\ UNCHANGED <<w, disk, encLog, ref>>
             ELSE IF bytes_read = 0
             THEN /\ fail = "none"
                  /\ pk' = [pk EXCEPT !.pc = "padding", !.remaining = pk.padding_bytes]
                  /\ ref' = WriterFinish(w, disk, "none").disk
                  /\ UNCHANGED <<w, disk, encLog>>
             ELSE /\ WriteCanFail(fail, bytes_read)
                  /\ DoWrite("Audio", Plain(data), pk.virtual_offset, 0, 0, fail)
                  /\ pk' = IF fail = "none"
                           THEN [pk EXCEPT !.in_pos = @ + bytes_read,
                                           !.virtual_offset = @ + bytes_read]
                           ELSE [pk EXCEPT !.pc = "failed"]
                  /\ UNCHANGED ref
    /\ UNCHANGED <<sres, dlog, fh, rs, mlog, calc, wst, rd, res, tamper, unp, vs, acc>>

\* one iteration of the padding loop of pack_to_furry
PackPadding ==
    /\ pk.pc = "padding"
    /\ pk.remaining > 0
    /\ pk.pad_count < MaxPadCount
    /\ \E fail \in WriteFailPoints \cup {"random"} :
          LET chunk_size == PaddingChunkSize(pk.remaining, pk.padding_chunk_size)
          IN /\ IF fail = "random"
                THEN UNCHANGED <<w, disk, encLog>>
                ELSE /\ WriteCanFail(fail, chunk_size)
                     /\ DoWrite("Padding", Plain(RandomBytes(chunk_size)), 0, 0, 0, fail)
             /\ pk' = IF fail = "none"
                      THEN [pk EXCEPT !.remaining = @ - chunk_size, !.pad_count = @ + 1]
                      ELSE [pk EXCEPT !.pc = "failed"]
    /\ UNCHANGED <<sres, dlog, fh, rs, mlog, calc, wst, rd, res, tamper, ref, unp, vs, acc>>

\* writer.finish()? and Ok(()) of pack_to_furry
PackFinish ==
    /\ pk.pc = "padding"
    /\ pk.remaining <= 0
    /\ \E fail \in FinishFailPoints :
          /\ DoFinish(fail)
          /\ pk' = [pk EXCEPT !.pc = IF fail = "none" THEN "done" ELSE "failed"]
    /\ UNCHANGED <<sres, dlog, fh, rs, mlog, calc, rd, res, tamper, ref, unp, vs, acc>>

\* unpack_from_furry on the file pack_to_furry returned Ok for
Unpack ==
    /\ pk.pc = "done"
    /\ ~unp.done
    /\ LET u == UnpackFromFurry(disk, MASTER_KEY)
       IN unp' = [done |-> TRUE, ok |-> u.ok, err |-> u.err, out |-> u.out,
                  original_format |-> u.original_format]
    /\ UNCHANGED <<sres, dlog, fh, rs, mlog, calc, w, wst, disk, encLog, rd, res, tamper, pk, ref, vs, acc>>

NextPack ==
    \/ PackCreate
    \/ PackMeta
    \/ PackAudio
    \/ PackPadding
    \/ PackFinish
    \/ Unpack

SpecPack == InitPack /\ [][NextPack]_vars

\* ------------------------------------------------- VirtualAudioStream use
\* the buffer sizes and seek offsets callers use
BufLens == 0..(MaxChunkSize + 1)
SeekArgs ==
    ({"Start"} \X (0..(MaxInputLen + 1)))
    \cup ({"End"} \X ((0 - MaxInputLen - 1)..1))
    \cup ({"Current"} \X ((0 - MaxInputLen - 1)..1))

InitStream ==
    InitWith(PackArgs(0..MaxInputLen, {"Mp3"}, 1..MaxChunkSize,
                      {<<0, 0>>, <<1, 1>>}, {<<>>, <<"Tags">>}))

\* VirtualAudioStream::open on the packed file
StreamOpenCall ==
    /\ pk.pc = "done"
    /\ ~vs.open
    /\ LET o == StreamOpen(disk, MASTER_KEY)
       IN /\ o.ok
          /\ vs' = o.vs
    /\ acc' = NoAcc
    /\ UNCHANGED <<sres, dlog, fh, rs, mlog, calc, w, wst, disk, encLog, rd, res, tamper, pk, ref, unp>>

\* the stream and the bytes collected after read returned r
AfterRead(r) ==
    /\ vs' = r.vs
    /\ acc' = IF r.ok THEN [acc EXCEPT !.bytes = @ \o r.bytes] ELSE acc

\* read(buf) on the stream
StreamReadCall ==
    /\ vs.open
    /\ \E buf_len \in BufLens, io_fail \in BOOLEAN :
          AfterRead(StreamRead(vs, disk, buf_len, io_fail))
    /\ UNCHANGED <<sres, dlog, fh, rs, mlog, calc, w, wst, disk, encLog, rd, res, tamper, pk, ref, unp>>

\* the stream and the bytes collected after seek returned r
AfterSeek(r) ==
    /\ vs' = r.vs
    /\ acc' = IF r.ok THEN [from |-> r.vs.position, bytes |-> <<>>] ELSE acc

\* seek(pos) on the stream
StreamSeekCall ==
    /\ vs.open
    /\ \E a \in SeekArgs :
          /\ SeekTarget(vs, a[1], a[2]) <= MaxInputLen + 1
          /\ AfterSeek(StreamSeek(vs, a[1], a[2]))
    /\ UNCHANGED <<sres, dlog, fh, rs, mlog, calc, w, wst, disk, encLog, rd, res, tamper, pk, ref, unp>>

NextStream ==
    \/ PackCreate
    \/ PackMeta
    \/ PackAudio
    \/ PackPadding
    \/ PackFinish
    \/ StreamOpenCall
    \/ StreamReadCall
    \/ StreamSeekCall

SpecStream == InitStream /\ [][NextStream]_vars

\* ------------------------------------------------- changes to a packed file
\* the fields of the file header and of a chunk header that are numbers
HeaderFields ==
    {"version", "header_size", "flags", "file_id", "salt", "fake_header_len",
     "kdf_id", "aead_id", "chunk_header_version", "index_offset", "index_total_len"}
ChunkHeaderFields ==
    {"header_len", "header_version", "chunk_type", "chunk_flags", "reserved0",
     "chunk_seq", "virtual_offset", "plain_len", "reserved1", "reserved2"}

\* the values a changed chunk-header field takes
ChangedValues(dk, field, old) ==
    CASE field = "plain_len" -> {old + 1, FileLen(dk)}
      [] field = "chunk_type" -> (0..4) \ {old}
      [] OTHER -> {old + 1}

\* the offset of the record the piece i of the body belongs to
RecordStartOf(body, i) ==
    PieceStart(body, CHOOSE j \in 1..i :
                        /\ body[j].k = "H"
                        /\ \A m \in (j + 1)..i : body[m].k # "H")

InitTamper ==
    InitWith(PackArgs({0, MaxInputLen}, {"Mp3"}, {MaxChunkSize},
                      {<<0, 0>>, <<1, 1>>}, {<<>>, <<"Tags">>}))

\* one field of the file header of an intact packed file is changed
TamperHeader ==
    /\ pk.pc = "done" /\ tamper.kind = "none"
    /\ ReaderOpen(disk, MASTER_KEY).ok
    /\ \E field \in HeaderFields \cup {"magic"} :
          /\ disk' = [disk EXCEPT !.hdr[field] = IF field = "magic" THEN "XURRYFMT"
                                                  ELSE @ + 1]
          /\ tamper' = [kind |-> "header", field |-> field, off |-> 0, piece |-> 0]
    /\ res' = NoRes
    /\ UNCHANGED <<sres, dlog, fh, rs, mlog, calc, w, wst, encLog, rd, pk, ref, unp, vs, acc>>

\* one field of one chunk header of an intact packed file is changed
TamperChunkHeader ==
    /\ pk.pc = "done" /\ tamper.kind = "none"
    /\ ReaderOpen(disk, MASTER_KEY).ok
    /\ \E i \in 1..Len(disk.body), field \in ChunkHeaderFields \cup {"magic"} :
          /\ disk.body[i].k = "H"
          /\ \E new \in IF field = "magic" THEN {"XRCK"}
                        ELSE ChangedValues(disk, field, disk.body[i].v[field]) :
                disk' = [disk EXCEPT !.body[i].v[field] = new]
          /\ tamper' = [kind |-> "chunk_header", field |-> field,
                        off |-> PieceStart(disk.body, i), piece |-> i]
    /\ res' = NoRes
    /\ UNCHANGED <<sres, dlog, fh, rs, mlog, calc, w, wst, encLog, rd, pk, ref, unp, vs, acc>>

\* one byte of one ciphertext or of one tag of an intact packed file is changed
TamperBytes ==
    /\ pk.pc = "done" /\ tamper.kind = "none"
    /\ ReaderOpen(disk, MASTER_KEY).ok
    /\ \E i \in 1..Len(disk.body) :
          /\ disk.body[i].k \in {"C", "T"}
          /\ disk' = [disk EXCEPT !.body[i].v.bad = TRUE]
          /\ tamper' = [kind |-> IF disk.body[i].k = "C" THEN "ciphertext" ELSE "tag",
                        field |-> "", off |-> RecordStartOf(disk.body, i), piece |-> i]
    /\ res' = NoRes
    /\ UNCHANGED <<sres, dlog, fh, rs, mlog, calc, w, wst, encLog, rd, pk, ref, unp, vs, acc>>

NextTamper ==
    \/ PackCreate
    \/ PackMeta
    \/ PackAudio
    \/ PackPadding
    \/ PackFinish
    \/ TamperHeader
    \/ TamperChunkHeader
    \/ TamperBytes
    \/ Open
    \/ ReadChunkCall

SpecTamper == InitTamper /\ [][NextTamper]_vars

\* ------------------------------------------- records moved within a file
\* the last piece of the record whose header is piece i of the body
RecordEndOf(body, i) ==
    CHOOSE k \in i..Len(body) :
        /\ \A m \in (i + 1)..k : body[m].k # "H"
        /\ k = Len(body) \/ body[k + 1].k = "H"

\* the pieces of the record whose header is piece i
RecordAt(body, i) == SubSeq(body, i, RecordEndOf(body, i))

\* the headers of the complete chunk records of the body, but the index
\* record (the last one)
MovableRecords(body) ==
    {i \in 1..Len(body) :
        /\ body[i].k = "H"
        /\ RecordEndOf(body, i) < Len(body)
        /\ body[RecordEndOf(body, i)].k = "T"}

InitSwap ==
    InitWith(PackArgs({MaxInputLen}, {"Mp3"}, 1..MaxChunkSize,
                      {<<0, 0>>, <<1, 1>>}, {<<>>, <<"Tags">>}))

\* two authentic records of the same length of an intact packed file are
\* exchanged on disk
SwapRecords ==
    /\ pk.pc = "done" /\ tamper.kind = "none"
    /\ ReaderOpen(disk, MASTER_KEY).ok
    /\ \E i, j \in MovableRecords(disk.body) :
          /\ i < j
          /\ BodyLen(RecordAt(disk.body, i)) = BodyLen(RecordAt(disk.body, j))
          /\ disk' = [disk EXCEPT !.body =
                         SubSeq(@, 1, i - 1) \o RecordAt(@, j)
                         \o SubSeq(@, RecordEndOf(@, i) + 1, j - 1) \o RecordAt(@, i)
                         \o SubSeq(@, RecordEndOf(@, j) + 1, Len(@))]
          /\ tamper' = [kind |-> "swap", field |-> "", off |-> PieceStart(disk.body, i),
                        piece |-> j]
    /\ res' = NoRes
    /\ UNCHANGED <<sres, dlog, fh, rs, mlog, calc, w, wst, encLog, rd, pk, ref, unp, vs, acc>>

\* an authentic record of an intact packed file is copied over another one
\* of the same length
CopyRecord ==
    /\ pk.pc = "done" /\ tamper.kind = "none"
    /\ ReaderOpen(disk, MASTER_KEY).ok
    /\ \E i, j \in MovableRecords(disk.body) :
          /\ i # j
          /\ BodyLen(RecordAt(disk.body, i)) = BodyLen(RecordAt(disk.body, j))
          /\ disk' = [disk EXCEPT !.body =
                         SubSeq(@, 1, j - 1) \o RecordAt(@, i)
                         \o SubSeq(@, RecordEndOf(@, j) + 1, Len(@))]
          /\ tamper' = [kind |-> "copy", field |-> "", off |-> PieceStart(disk.body, j),
                        piece |-> i]
    /\ res' = NoRes
    /\ UNCHANGED <<sres, dlog, fh, rs, mlog, calc, w, wst, encLog, rd, pk, ref, unp, vs, acc>>

NextSwap ==
    \/ PackCreate
    \/ PackMeta
    \/ PackAudio
    \/ PackPadding
    \/ PackFinish
    \/ SwapRecords
    \/ CopyRecord
    \/ Open
    \/ ReadChunkCall

SpecSwap == InitSwap /\ [][NextSwap]_vars

\* ------------------------------------------------------- META chunks
\* the (kind, data, chunk_flags) callers pass to write_meta_chunk: short
\* payloads, payloads of exactly the cap of the kind, and payloads one byte
\* longer
MetaCalls ==
    {<<"Tags", Plain(<<3>>), 0>>,
     <<"Tags", FilledPlain(MAX_TAGS_BYTES, 7), FLAG_META_XOR>>,
     <<"Tags", FilledPlain(MAX_TAGS_BYTES + 1, 8), 0>>,
     <<"Lyrics", FilledPlain(MAX_LYRICS_BYTES, 7), 0>>,
     <<"Lyrics", FilledPlain(MAX_LYRICS_BYTES + 1, 8), FLAG_META_XOR>>,
     <<"CoverArt", FilledPlain(MAX_COVER_BYTES, 7), FLAG_META_XOR>>,
     <<"CoverArt", FilledPlain(MAX_COVER_BYTES + 1, 8), 0>>,
     <<"Unknown", Plain(<<5>>), FLAG_META_XOR>>}

\* the write_all of a record that fails, at most once per writer
MetaFailPoints == IF \A i \in 1..Len(encLog) : encLog[i].ok THEN {"none", "tag"} ELSE {"none"}

\* write_audio_chunk on the writer of a file that carries META chunks
MetaFileWriteAudio ==
    /\ wst = "open" /\ pk.pc = "none" /\ w.chunk_seq < MaxWrites
    /\ \E fail \in MetaFailPoints :
          DoWrite("Audio", Plain(<<1>>), w.index.header.audio_stream_len, 0, 0, fail)
    /\ UNCHANGED <<sres, dlog, fh, rs, mlog, calc, wst, rd, res, tamper, pk, ref, unp, vs, acc>>

\* write_meta_chunk(kind, data, chunk_flags); mlog records the call, the
\* chunk_seq it used, the plaintext it handed to the AEAD and its result
MetaFileWriteMeta ==
    /\ wst = "open" /\ pk.pc = "none" /\ w.chunk_seq < MaxWrites
    /\ \E c \in MetaCalls, fail \in MetaFailPoints :
          /\ DoWrite("Meta", c[2], 0, MetaKindAsU16(c[1]), c[3], fail)
          /\ mlog' = Append(mlog,
                [kind |-> c[1], data |-> c[2], chunk_flags |-> c[3],
                 chunk_seq |-> w.chunk_seq, ok |-> fail = "none",
                 handed |-> WriteChunkInternal(w, disk, "Meta", c[2], 0,
                                MetaKindAsU16(c[1]), c[3], fail).enc.plain])
    /\ UNCHANGED <<sres, dlog, fh, rs, calc, wst, rd, res, tamper, pk, ref, unp, vs, acc>>

\* FurryReader::read_latest_meta(kind) on the open reader
ReadLatestMetaCall ==
    /\ rd.open
    /\ \E kind \in MetaKinds, io_fail \in BOOLEAN :
          LET r == ReadLatestMeta(rd.r, disk, kind, io_fail)
          IN res' = [NoRes EXCEPT !.op = "read_latest_meta", !.ok = r.ok,
                                  !.err = r.err, !.plain = r.plain, !.some = r.some,
                                  !.kind = kind, !.reads = r.reads,
                                  !.io_fail = IF io_fail THEN "read" ELSE "none"]
    /\ UNCHANGED <<sres, dlog, fh, rs, mlog, calc, w, wst, disk, encLog, rd, tamper, pk, ref, unp, vs, acc>>

\* the orders in which n index entries can be listed, other than 1, .., n
OtherOrders(n) ==
    {p \in [1..n -> 1..n] :
        /\ \A i, j \in 1..n : i # j => p[i] # p[j]
        /\ \E i \in 1..n : p[i] # i}

\* A file of the format from a writer that holds the master key and lists
\* the index entries in another order than the records: FurryIndexV1::parse
\* takes the entries in the order of the payload, whatever it is.
FinishReordered ==
    /\ wst = "open" /\ pk.pc = "none"
    /\ \E p \in OtherOrders(Len(w.index.entries)) :
          LET wr == [w EXCEPT !.index.entries = [i \in 1..Len(@) |-> @[p[i]]]]
              r == WriterFinish(wr, disk, "none")
          IN /\ disk' = r.disk
             /\ w' = [wr EXCEPT !.header = r.header]
             /\ encLog' = Append(encLog, [nonce |-> r.enc.nonce, chunk_seq |-> r.enc.chunk_seq,
                                          chunk_type |-> r.enc.chunk_type, ok |-> r.ok])
    /\ wst' = "finished"
    /\ UNCHANGED <<sres, dlog, fh, rs, mlog, calc, rd, res, tamper, pk, ref, unp, vs, acc>>

NextMeta ==
    \/ MetaFileWriteAudio
    \/ MetaFileWriteMeta
    \/ Finish
    \/ FinishReordered
    \/ Open
    \/ ReadLatestMetaCall

SpecMeta == Init /\ [][NextMeta]_vars

\* ------------------------------------------------------- opening a file
\* the master keys a file is opened with: the writer's and another one
MasterKeys == {MASTER_KEY, MASTER_KEY + 1}

\* the fields FurryHeaderV1::read_from checks
CheckedHeaderFields == {"magic", "version", "header_size"}

\* the header bytes b with the fields of S changed (numbers by delta)
WithWrongFields(b, S, delta) ==
    [b EXCEPT !.magic = IF "magic" \in S THEN "XURRYFMT" ELSE @,
              !.version = IF "version" \in S THEN @ + delta ELSE @,
              !.header_size = IF "header_size" \in S THEN @ + delta ELSE @]

\* the header of a packed file gets one or more of its checked fields wrong
CorruptHeader ==
    /\ pk.pc = "done" /\ tamper.kind = "none"
    /\ \E S \in (SUBSET CheckedHeaderFields) \ {{}}, delta \in {0 - 1, 1} :
          /\ disk' = [disk EXCEPT !.hdr = WithWrongFields(@, S, delta)]
          /\ tamper' = [kind |-> "checked_fields", field |-> S, off |-> 0, piece |-> 0]
    /\ res' = NoRes
    /\ rd' = [open |-> FALSE, r |-> NoReader]
    /\ UNCHANGED <<sres, dlog, fh, rs, mlog, calc, w, wst, encLog, pk, ref, unp, vs, acc>>

\* index_offset in the header of a packed file is made to point at the
\* record of an Audio, Meta or Padding chunk of the same file
RedirectIndex ==
    /\ pk.pc = "done" /\ tamper.kind = "none"
    /\ \E i \in 1..Len(disk.body) :
          /\ disk.body[i].k = "H"
          /\ ChunkTypeFromU8(disk.body[i].v.chunk_type) \in {"Audio", "Meta", "Padding"}
          /\ disk' = [disk EXCEPT !.hdr.index_offset = PieceStart(disk.body, i)]
          /\ tamper' = [kind |-> "index_offset", field |-> "index_offset",
                        off |-> PieceStart(disk.body, i), piece |-> i]
    /\ res' = NoRes
    /\ rd' = [open |-> FALSE, r |-> NoReader]
    /\ UNCHANGED <<sres, dlog, fh, rs, mlog, calc, w, wst, encLog, pk, ref, unp, vs, acc>>

\* FurryReader::open(source, master_key) on the file, the source failing the
\* I/O call named by fail
OpenCall ==
    /\ pk.pc = "done"
    /\ \E master_key \in MasterKeys, fail \in OpenFailPoints :
          LET o == ReaderOpenIo(disk, master_key, fail)
          IN /\ rd' = [open |-> o.ok, r |-> o.reader]
             /\ res' = [NoRes EXCEPT !.op = "open", !.ok = o.ok, !.err = o.err,
                                     !.io_fail = fail, !.master_key = master_key,
                                     !.did = o.did]
    /\ UNCHANGED <<sres, dlog, fh, rs, mlog, calc, w, wst, disk, encLog, tamper, pk, ref, unp, vs, acc>>

NextOpen ==
    \/ PackCreate
    \/ PackMeta
    \/ PackAudio
    \/ PackPadding
    \/ PackFinish
    \/ CorruptHeader
    \/ RedirectIndex
    \/ OpenCall

SpecOpen == InitTamper /\ [][NextOpen]_vars

\* ------------------------------------------------- functions of the crates
\* the state in which a function of the crates is about to be applied
InitCalc(calls) ==
    /\ calc \in calls
    /\ w = NoWriter
    /\ wst = "none"
    /\ disk = NoDisk
    /\ encLog = <<>>
    /\ rd = [open |-> FALSE, r |-> NoReader]
    /\ res = NoRes
    /\ tamper = NoTamper
    /\ pk = NoPack
    /\ ref = NoDisk
    /\ unp = NoUnpack
    /\ vs = NoStream
    /\ acc = NoAcc
    /\ mlog = <<>>
    /\ sres = NoSres
    /\ dlog = NoDlog
    /\ fh = NoHandles
    /\ rs = NoReaders

\* the keys, chunk_seq values and buffers xor_meta_in_place is called with:
\* buffers of 0 and 1 bytes, of one byte less than, exactly and one byte more
\* than the mask buffer, and of MaxXorBlocks mask buffers and a byte
XorKeys == {DeriveFileKeys(mk, salt).meta_xor_key : mk \in {MASTER_KEY, MASTER_KEY + 1}, salt \in Salts}
XorLens == {0, 1, XOR_MASK_LEN - 1, XOR_MASK_LEN, XOR_MASK_LEN + 1, MaxXorBlocks * XOR_MASK_LEN + 1}
XorDatas == {[j \in 1..len |-> (j * 37 + pat * 101) % 256] : len \in XorLens, pat \in 0..2}
XorCalls ==
    {[NoCalc EXCEPT !.fn = "xor_meta_in_place", !.args = <<key, chunk_seq, data>>,
                    !.out = data] :
        key \in XorKeys, chunk_seq \in 0..MaxWrites, data \in XorDatas}

InitXor == InitCalc(XorCalls)

\* xor_meta_in_place(meta_xor_key, chunk_seq, data) on the buffer the
\* earlier calls left
XorMetaInPlaceCall ==
    /\ calc.fn = "xor_meta_in_place"
    /\ calc.n < MaxXorCalls
    /\ calc' = [calc EXCEPT !.out = XorMetaInPlace(calc.args[1], calc.args[2], @),
                            !.n = @ + 1]
    /\ UNCHANGED <<sres, dlog, fh, rs, w, wst, disk, encLog, rd, res, tamper, pk, ref, unp, vs, acc, mlog>>

NextXor == XorMetaInPlaceCall

SpecXor == InitXor /\ [][NextXor]_vars

\* the 48 bytes of an index entry whose chunk_type byte is t
EntryBytes(t, chunk_seq) ==
    [IndexEntryNewPadding(chunk_seq, FURRY_HEADER_LEN, RecordLen(0), 0) EXCEPT !.chunk_type = t]

\* the sequences of at most n entries with chunk_type bytes from ts
RECURSIVE EntrySeqs(_, _)
EntrySeqs(n, ts) ==
    IF n = 0 THEN {<<>>}
    ELSE EntrySeqs(n - 1, ts)
         \cup {Append(es, EntryBytes(t, Len(es))) : es \in EntrySeqs(n - 1, ts), t \in ts}

\* the payloads FurryIndexV1::parse is given: a 32-byte header announcing
\* entry_count entries, followed by the bytes of es and by `extra` more
\* bytes (fewer than one entry); `cut` bytes are missing from the header
IndexPayload(magic, version, entry_count, es, extra, cut) ==
    [len |-> IF cut > 0 THEN INDEX_HEADER_LEN - cut
             ELSE INDEX_HEADER_LEN + Len(es) * INDEX_ENTRY_LEN + extra,
     bytes |-> <<>>,
     idx |-> << [magic |-> magic, version |-> version, flags |-> 0,
                 entry_count |-> entry_count, audio_stream_len |-> 0,
                 original_format |-> 0, reserved |-> 0,
                 entries |-> IF cut > 0 THEN <<>> ELSE es] >>]

IndexPayloads ==
    {IndexPayload(magic, version, entry_count, es, extra, 0) :
        magic \in {INDEX_MAGIC, "XURRYIDX"}, version \in {INDEX_VERSION, INDEX_VERSION + 1},
        entry_count \in 0..(MaxEntries + 1),
        es \in EntrySeqs(MaxEntries, {ChunkTypeAsU8("Audio"), ChunkTypeAsU8("Meta"), 0}),
        extra \in {0, 1}}
    \cup {IndexPayload(INDEX_MAGIC, INDEX_VERSION, 0, <<>>, 0, cut) : cut \in {1, 22}}

ParseCalls == {[NoCalc EXCEPT !.fn = "parse", !.args = <<p>>] : p \in IndexPayloads}

\* FurryIndexV1::new(audio_stream_len, original_format)
BuildCalls ==
    {[NoCalc EXCEPT !.fn = "build", !.out = <<FurryIndexNew(len, fmt)>>] :
        len \in {0, MaxDataLen}, fmt \in OriginalFormats}

InitParse == InitCalc(ParseCalls \cup BuildCalls)

\* FurryIndexV1::parse(plain)
IndexParseCall ==
    /\ calc.fn = "parse" /\ calc.n = 0
    /\ calc' = [calc EXCEPT !.out = <<IndexParse(calc.args[1])>>, !.n = 1]
    /\ UNCHANGED <<sres, dlog, fh, rs, w, wst, disk, encLog, rd, res, tamper, pk, ref, unp, vs, acc, mlog>>

\* FurryIndexV1::add_entry(entry) on the index built so far
IndexAddEntryCall ==
    /\ calc.fn = "build" /\ calc.n < MaxEntries
    /\ \E t \in {"Audio", "Meta", "Padding"} :
          calc' = [calc EXCEPT
                      !.out = <<IndexAddEntry(@[1],
                                   EntryFor(t, calc.n, FURRY_HEADER_LEN, RecordLen(0), 0, 0, 0, 0))>>,
                      !.n = @ + 1]
    /\ UNCHANGED <<sres, dlog, fh, rs, w, wst, disk, encLog, rd, res, tamper, pk, ref, unp, vs, acc, mlog>>

NextParse ==
    \/ IndexParseCall
    \/ IndexAddEntryCall

SpecParse == InitParse /\ [][NextParse]_vars

\* ------------------------------------------- the calls on a stream, one by one
\* what read(buf) with buf.len() = buf_len did when it returned r: the chunk
\* it decrypted, if any, and its result
ReadLogged(r, buf_len) ==
    /\ dlog' = IF r.ok /\ r.loads = 1
               THEN [dlog EXCEPT !.chunks = Append(@, r.vs.cache_start)] ELSE dlog
    /\ sres' = [NoSres EXCEPT !.op = "read", !.ok = r.ok, !.err = r.err, !.n = r.n,
                              !.buf_len = buf_len, !.bytes = r.bytes,
                              !.loads = r.loads, !.before = vs]

\* what seek(pos) did when it returned r: a stream that was repositioned
\* starts a new list of decrypted chunks
SeekLogged(r, whence, offset) ==
    /\ dlog' = IF r.ok THEN [fresh |-> FALSE, cold |-> ~vs.cached, chunks |-> <<>>]
               ELSE dlog
    /\ sres' = [NoSres EXCEPT !.op = "seek", !.ok = r.ok, !.err = r.err,
                              !.whence = whence, !.offset = offset, !.before = vs]

\* read(buf) on the stream, for a buffer size of bufs
LoggedReadCall(bufs) ==
    /\ vs.open
    /\ \E buf_len \in bufs, io_fail \in BOOLEAN :
          /\ AfterRead(StreamRead(vs, disk, buf_len, io_fail))
          /\ ReadLogged(StreamRead(vs, disk, buf_len, io_fail), buf_len)
    /\ UNCHANGED <<fh, rs, mlog, calc, w, wst, disk, encLog, rd, res, tamper, pk, ref, unp>>

\* the seek call panics at the overflowing addition: nothing is assigned
SeekPanic(s) == [ok |-> FALSE, err |-> "panic", vs |-> s]

\* seek(pos) on the stream, for a position of args; an overflowing addition
\* panics or wraps, depending on the build
LoggedSeekCall(args) ==
    /\ vs.open
    /\ \E a \in args, overflow_checks \in BOOLEAN :
          LET r == IF overflow_checks /\ SeekOverflows(vs, a[1], a[2])
                   THEN SeekPanic(vs) ELSE StreamSeek(vs, a[1], a[2])
          IN /\ AfterSeek(r)
             /\ SeekLogged(r, a[1], a[2])
    /\ UNCHANGED <<fh, rs, mlog, calc, w, wst, disk, encLog, rd, res, tamper, pk, ref, unp>>

\* short files of every length and chunk_size, and the file of S3
InitCache ==
    InitWith(PackArgs(0..MaxInputLen, {"Mp3"}, 0..MaxChunkSize, {<<0, 0>>}, {<<>>})
             \cup PackArgs({S5InputLen}, {"Mp3"}, {S5ChunkSize}, {<<0, 0>>}, {<<>>}))

\* the file of the state is the file of S3
IsS3File == pk.chunk_size = S5ChunkSize

\* the buffers callers read with: every size on the short files; on the
\* file of S3, what is left of the current run of S5ReadLen bytes
CacheBufLens ==
    IF IsS3File THEN {S5ReadLen - (Len(acc.bytes) % S5ReadLen)} ELSE BufLens

\* the positions callers seek to: every one on the short files, the one of
\* S5 on the file of S3
CacheSeekArgs ==
    IF IsS3File THEN {<<"Start", S5Seek>>}
    ELSE {a \in SeekArgs : SeekTarget(vs, a[1], a[2]) <= MaxInputLen + 1}

CacheReadCall == LoggedReadCall(CacheBufLens)

CacheSeekCall == LoggedSeekCall(CacheSeekArgs)

NextCache ==
    \/ PackCreate
    \/ PackAudio
    \/ PackFinish
    \/ StreamOpenCall
    \/ CacheReadCall
    \/ CacheSeekCall

SpecCache == InitCache /\ [][NextCache]_vars

\* the arguments callers pass to seek, over the whole range of the types:
\* Start takes a u64, End and Current an i64
SeekArgRange ==
    ({"Start"} \X ((0..(MaxInputLen + 1)) \cup {I64_MAX, I64_MAX + 1, U64_MAX}))
    \cup ({"End", "Current"}
          \X (((0 - MaxInputLen - 1)..1) \cup {I64_MIN, I64_MAX - 1, I64_MAX}))

\* the ones followed: those that fail, and those that lead near the stream
\* or to the two largest positions
WideSeekArgs ==
    {a \in SeekArgRange :
        \/ SeekTarget(vs, a[1], a[2]) <= MaxInputLen + 1
        \/ SeekTarget(vs, a[1], a[2]) >= I64_MAX - 1}

InitSeek ==
    InitWith(PackArgs({0, MaxInputLen}, {"Mp3"}, {MaxChunkSize}, {<<0, 0>>}, {<<>>}))

SeekReadCall == LoggedReadCall({1, MaxChunkSize + 1})

WideSeekCall == LoggedSeekCall(WideSeekArgs)

NextSeek ==
    \/ PackCreate
    \/ PackAudio
    \/ PackFinish
    \/ StreamOpenCall
    \/ SeekReadCall
    \/ WideSeekCall

SpecSeek == InitSeek /\ [][NextSeek]_vars

\* ------------------------------------------------- two readers on one file
InitReaders ==
    InitWith(PackArgs({MaxInputLen}, {"Mp3"}, {MaxChunkSize},
                      {<<0, 0>>, <<1, 1>>}, {<<>>, <<"Tags">>}))

\* a step of reader i falls into the read_chunk call the other reader has
\* in progress
Overlap(i) ==
    [j \in Readers |-> IF j # i /\ rs[j].pc # "idle"
                       THEN [rs[j] EXCEPT !.overlapped = TRUE] ELSE rs[j]]

\* FurryReader::open(file, master_key) of reader i on its own handle, which
\* it leaves after the index record
ReaderOpenCall(i) ==
    /\ pk.pc = "done" /\ ~rs[i].open
    /\ LET o == ReaderOpen(disk, MASTER_KEY)
       IN /\ o.ok
          /\ rs' = [Overlap(i) EXCEPT ![i] = [NoReaderCall EXCEPT !.open = TRUE, !.r = o.reader]]
          /\ fh' = [fh EXCEPT ![HandleOf(i)] =
                       o.reader.header.index_offset + o.reader.header.index_total_len]
    /\ UNCHANGED <<w, wst, disk, encLog, rd, res, tamper, pk, ref, unp, vs, acc, mlog, calc, dlog, sres>>

\* read_chunk(entry) of reader i begins: the seek
ReadChunkBegin(i) ==
    /\ rs[i].open /\ rs[i].pc = "idle"
    /\ \E k \in 1..Len(rs[i].r.index.entries) :
          LET entry == rs[i].r.index.entries[k]
          IN /\ rs' = [Overlap(i) EXCEPT ![i] =
                          [NoReaderCall EXCEPT !.open = TRUE, !.r = rs[i].r,
                                               !.pc = "sought", !.entry = entry]]
             /\ fh' = [fh EXCEPT ![HandleOf(i)] = ReadChunkSeek(entry)]
    /\ UNCHANGED <<w, wst, disk, encLog, rd, res, tamper, pk, ref, unp, vs, acc, mlog, calc, dlog, sres>>

\* the call of reader i returns out
ReadChunkReturn(i, out) ==
    [Overlap(i) EXCEPT ![i] = [rs[i] EXCEPT !.pc = "idle", !.done = TRUE, !.out = out]]

\* read_chunk of reader i reads the chunk header at the cursor of its handle
ReadChunkHeaderStep(i) ==
    /\ rs[i].pc = "sought"
    /\ LET h == ReadChunkHeader(disk, fh[HandleOf(i)])
       IN /\ rs' = IF h.rec.ok
                   THEN [Overlap(i) EXCEPT ![i] = [rs[i] EXCEPT !.pc = "header",
                                                                !.header = h.rec.header]]
                   ELSE ReadChunkReturn(i, [NoOut EXCEPT !.err = h.rec.err])
          /\ fh' = [fh EXCEPT ![HandleOf(i)] = h.cursor]
    /\ UNCHANGED <<w, wst, disk, encLog, rd, res, tamper, pk, ref, unp, vs, acc, mlog, calc, dlog, sres>>

\* read_chunk of reader i reads plain_len bytes at the cursor of its handle
ReadChunkCiphertextStep(i) ==
    /\ rs[i].pc = "header"
    /\ LET c == ReadChunkCiphertext(disk, fh[HandleOf(i)], rs[i].header.plain_len)
       IN /\ rs' = IF c.ok
                   THEN [Overlap(i) EXCEPT ![i] = [rs[i] EXCEPT !.pc = "ciphertext",
                                                                !.ciphertext = c.ciphertext]]
                   ELSE ReadChunkReturn(i, [NoOut EXCEPT !.err = "Io"])
          /\ fh' = [fh EXCEPT ![HandleOf(i)] = c.cursor]
    /\ UNCHANGED <<w, wst, disk, encLog, rd, res, tamper, pk, ref, unp, vs, acc, mlog, calc, dlog, sres>>

\* read_chunk of reader i reads the tag at the cursor of its handle,
\* decrypts and returns
ReadChunkTagStep(i) ==
    /\ rs[i].pc = "ciphertext"
    /\ LET t == ReadChunkTag(disk, fh[HandleOf(i)])
       IN /\ rs' = IF t.ok
                   THEN ReadChunkReturn(i, ReadChunkDecrypt(rs[i].r, rs[i].header,
                                                            rs[i].ciphertext, t.tag))
                   ELSE ReadChunkReturn(i, [NoOut EXCEPT !.err = "Io"])
          /\ fh' = [fh EXCEPT ![HandleOf(i)] = t.cursor]
    /\ UNCHANGED <<w, wst, disk, encLog, rd, res, tamper, pk, ref, unp, vs, acc, mlog, calc, dlog, sres>>

NextReaders ==
    \/ PackCreate
    \/ PackMeta
    \/ PackAudio
    \/ PackPadding
    \/ PackFinish
    \/ \E i \in Readers : ReaderOpenCall(i)
    \/ \E i \in Readers : ReadChunkBegin(i)
    \/ \E i \in Readers : ReadChunkHeaderStep(i)
    \/ \E i \in Readers : ReadChunkCiphertextStep(i)
    \/ \E i \in Readers : ReadChunkTagStep(i)

SpecReaders == InitReaders /\ [][NextReaders]_vars

\* ------------------------------------------------- a file opened at any time
\* FurryReader::open on the writer's file, whether or not finish was called
\* or returned Ok
OpenAnyTime ==
    /\ wst \in {"open", "finished", "dropped"} /\ pk.pc = "none"
    /\ LET o == ReaderOpen(disk, MASTER_KEY)
       IN /\ rd' = [open |-> o.ok, r |-> o.reader]
          /\ res' = [NoRes EXCEPT !.op = "open", !.ok = o.ok, !.err = o.err]
    /\ UNCHANGED <<sres, dlog, fh, rs, mlog, calc, w, wst, disk, encLog, tamper, pk, ref, unp, vs, acc>>

\* the writer's calls come before the open
NextUnfinished ==
    \/ res.op = "none" /\ w.chunk_seq < MaxUnfinishedWrites /\ WriteAudioChunk
    \/ res.op = "none" /\ w.chunk_seq < MaxUnfinishedWrites /\ WriteMetaChunk
    \/ res.op = "none" /\ w.chunk_seq < MaxUnfinishedWrites /\ WritePaddingChunk
    \/ res.op = "none" /\ Finish
    \/ OpenAnyTime

SpecUnfinished == Init /\ [][NextUnfinished]_vars

\* --------------------------------------------- reads that fail on a stream
\* files written through pack_to_furry, or chunk by chunk through the writer
InitFrame ==
    \/ Init
    \/ InitWith(PackArgs({MaxInputLen}, {"Mp3"}, 1..MaxChunkSize, {<<0, 0>>}, {<<>>}))

\* VirtualAudioStream::open on a file the writer has finished
StreamOpenWritten ==
    /\ wst = "finished" /\ pk.pc = "none"
    /\ ~vs.open
    /\ LET o == StreamOpen(disk, MASTER_KEY)
       IN /\ o.ok
          /\ vs' = o.vs
    /\ acc' = NoAcc
    /\ UNCHANGED <<sres, dlog, fh, rs, mlog, calc, w, wst, disk, encLog, rd, res, tamper, pk, ref, unp>>

\* what read(buf) did when it returned r, and the errors reads have
\* returned so far
FrameReadLogged(r, buf_len) ==
    sres' = [NoSres EXCEPT !.op = "read", !.ok = r.ok, !.err = r.err, !.n = r.n,
                           !.buf_len = buf_len, !.bytes = r.bytes, !.loads = r.loads,
                           !.before = vs,
                           !.errs = IF r.ok THEN sres.errs ELSE sres.errs \cup {r.err}]

\* the buffers callers read with: one byte, and more than a chunk
FrameBufLens == {1, MaxChunkSize + 1}

\* read(buf) on the stream; the file may be damaged, and the seek or a read
\* of read_chunk may return an I/O error
FrameReadCall ==
    /\ vs.open
    /\ \E buf_len \in FrameBufLens, io_fail \in BOOLEAN :
          /\ vs' = StreamRead(vs, disk, buf_len, io_fail).vs
          /\ FrameReadLogged(StreamRead(vs, disk, buf_len, io_fail), buf_len)
    /\ UNCHANGED <<acc, dlog, fh, rs, mlog, calc, w, wst, disk, encLog, rd, res, tamper, pk, ref, unp>>

\* the positions callers seek to after a read has failed or succeeded
FrameSeekArgs == ({"Start"} \X (0..MaxInputLen)) \cup {<<"Current", 0 - 1>>}

\* seek(pos) on the stream
FrameSeekCall ==
    /\ vs.open
    /\ \E a \in FrameSeekArgs :
          /\ vs' = StreamSeek(vs, a[1], a[2]).vs
          /\ sres' = [NoSres EXCEPT !.op = "seek", !.ok = StreamSeek(vs, a[1], a[2]).ok,
                                    !.before = vs, !.errs = sres.errs]
    /\ UNCHANGED <<acc, dlog, fh, rs, mlog, calc, w, wst, disk, encLog, rd, res, tamper, pk, ref, unp>>

NextFrame ==
    \/ WriteAudioChunk
    \/ Finish
    \/ PackCreate
    \/ PackAudio
    \/ PackFinish
    \/ TamperBytes
    \/ StreamOpenCall
    \/ StreamOpenWritten
    \/ FrameReadCall
    \/ FrameSeekCall

SpecFrame == InitFrame /\ [][NextFrame]_vars

\* ----------------------------------------------------------------- properties
\* the Audio entries of an index, in index order
AudioOf(index) == SelectSeq(index.entries, LAMBDA e : e.chunk_type = "Audio")

\* the sum of plain_len over a sequence of entries
PlainLenSum(es) == SumOver(1..Len(es), [i \in 1..Len(es) |-> es[i].plain_len])

\* C4: the chunk_seq values used for encryption are 0, 1, 2, ... in call
\* order, whether the call then returned Ok or an error, and no two
\* encryptions of one writer, the Index chunk's included, use the same nonce.
C4_ChunkSeqAndNonceUnique ==
    /\ \A i \in 1..Len(encLog) : encLog[i].chunk_seq = i - 1
    /\ \A i, j \in 1..Len(encLog) : i # j => encLog[i].nonce # encLog[j].nonce

\* a failed write call, a later write call and the Index encryption of finish
C4_Witness ==
    /\ wst = "finished"
    /\ Len(encLog) = 3
    /\ ~encLog[1].ok
    /\ encLog[3].chunk_type = "Index"

RecordOffsets(dk) ==
    {off \in {PieceStart(dk.body, i) : i \in 1..Len(dk.body)} :
        LET rec == ReadRecordAt(dk, off)
        IN /\ rec.ok
           /\ rec.header.chunk_type # "Index"
           /\ off + RecordLen(rec.header.plain_len) <= FileLen(dk)
           /\ ~rec.ciphertext.bad
           /\ ~rec.tag.bad}

\* C7: after a successful finish the index holds one entry per non-index
\* chunk record of the file, in write order, and each entry's file_offset is
\* the offset of a record whose header has the entry's chunk_seq, chunk_type
\* and plain_len, with record_len = 40 + plain_len + 16.
C7_IndexConsistency ==
    wst = "finished" /\ pk.pc = "none" =>
        /\ Len(w.index.entries) = Cardinality(RecordOffsets(disk))
        /\ \A i \in 1..Len(w.index.entries) :
              LET e == w.index.entries[i]
                  rec == ReadRecordAt(disk, e.file_offset)
              IN /\ rec.ok
                 /\ rec.header.chunk_seq = e.chunk_seq
                 /\ rec.header.chunk_type = e.chunk_type
                 /\ rec.header.plain_len = e.plain_len
                 /\ e.record_len = CHUNK_HEADER_LEN + e.plain_len + TAG_LEN
        /\ \A i, j \in 1..Len(w.index.entries) :
              i < j => w.index.entries[i].file_offset < w.index.entries[j].file_offset

\* C8: after a successful finish over n indexed chunks with plaintext
\* lengths p_1..p_n the header on disk has index_offset = 96 + sum(56 + p_i),
\* the record at index_offset is an Index chunk, index_total_len is
\* 40 + (32 + 48 n) + 16 and the file is index_offset + index_total_len
\* bytes long (184 bytes when there is no chunk).
C8_HeaderPatchAndFileLength ==
    wst = "finished" /\ pk.pc = "none" =>
        LET n == Len(w.index.entries)
            rec == ReadRecordAt(disk, disk.hdr.index_offset)
        IN /\ disk.hdr.index_offset = 96 + PlainLenSum(w.index.entries) + 56 * n
           /\ rec.ok /\ rec.header.chunk_type = "Index"
           /\ disk.hdr.index_total_len = 40 + (32 + 48 * n) + 16
           /\ FileLen(disk) = disk.hdr.index_offset + disk.hdr.index_total_len
           /\ (n = 0 => FileLen(disk) = 184)

\* C1: when pack_to_furry has returned Ok, unpack_from_furry with the same
\* master key returns Ok, has written exactly the input bytes and reports
\* the original_format passed to pack, for every input, format and
\* PackOptions value.
C1_Roundtrip ==
    pk.pc = "done" /\ unp.done =>
        /\ unp.ok
        /\ unp.out = pk.input
        /\ unp.original_format = pk.original_format

\* C5: when the audio loop of pack has ended, for an input of length L and
\* chunk_size c the index holds ceil(L/c) Audio entries, the k-th (from 0)
\* with virtual_offset k*c and plain_len min(c, L - k*c); the Audio entries
\* sorted by virtual_offset tile [0, audio_stream_len) and audio_stream_len
\* is L.
C5_ChunkingCompleteness ==
    pk.pc \in {"padding", "done"} =>
        LET L == Len(pk.input)
            c == pk.chunk_size
            es == AudioOf(w.index)
            sorted == AudioEntries(w.index)
        IN /\ Len(es) * c >= L
           /\ Len(es) > 0 => (Len(es) - 1) * c < L
           /\ \A k \in 0..(Len(es) - 1) :
                 /\ es[k + 1].virtual_offset = k * c
                 /\ es[k + 1].plain_len = Min(c, L - k * c)
                 /\ es[k + 1].virtual_offset = PlainLenSum(SubSeq(es, 1, k))
           /\ \A k \in 1..Len(sorted) :
                 sorted[k].virtual_offset = PlainLenSum(SubSeq(sorted, 1, k - 1))
           /\ PlainLenSum(sorted) = w.index.header.audio_stream_len
           /\ w.index.header.audio_stream_len = L

\* the Padding entries of an index, in index order
PaddingOf(index) == SelectSeq(index.entries, LAMBDA e : e.chunk_type = "Padding")

\* what unpack_from_furry gives the caller: Ok or Err, the bytes written,
\* the format returned
UnpackOutcome(dk) ==
    LET u == UnpackFromFurry(dk, MASTER_KEY)
    IN <<u.ok, u.out, u.original_format>>

\* C9: when pack_to_furry has returned Ok, unpacking the file gives what
\* unpacking the file packed from the same input with the same chunk_size
\* and no padding gives; the Padding entries' plain_len values sum to
\* padding_bytes, each is at most padding_chunk_size, and the file is at
\* least padding_bytes longer than the unpadded one.
C9_PaddingNeutrality ==
    pk.pc = "done" =>
        /\ UnpackOutcome(disk) = UnpackOutcome(ref)
        /\ PlainLenSum(PaddingOf(w.index)) = pk.padding_bytes
        /\ \A i \in 1..Len(PaddingOf(w.index)) :
              PaddingOf(w.index)[i].plain_len <= pk.padding_chunk_size
        /\ FileLen(disk) >= FileLen(ref) + pk.padding_bytes

\* a pack of a non-empty input with two Padding chunks, the second shorter
\* than padding_chunk_size, unpacked to the input
C9_Witness ==
    /\ pk.pc = "done"
    /\ unp.done /\ unp.ok /\ unp.out = pk.input /\ Len(pk.input) > 0
    /\ pk.padding_bytes > pk.padding_chunk_size
    /\ Len(PaddingOf(w.index)) >= 2

\* C10: on a stream over a packed file, the bytes collected by the read
\* calls made since the stream was last positioned at a are the bytes of the
\* unpack output from a on, whatever seeks and reads came before and whatever
\* the buffer sizes; and while the position is inside the audio stream a
\* read into a non-empty buffer returns at least one byte, so that every
\* range [a, b) is collected after finitely many calls.
C10_RandomAccess ==
    vs.open =>
        LET out == UnpackFromFurry(disk, MASTER_KEY).out
        IN /\ vs.total_len = Len(out)
           /\ vs.position = acc.from + Len(acc.bytes)
           /\ \A i \in 1..Len(acc.bytes) :
                 acc.from + i <= Len(out) /\ acc.bytes[i] = out[acc.from + i]
           /\ \A buf_len \in BufLens \ {0} :
                 vs.position < vs.total_len =>
                    LET r == StreamRead(vs, disk, buf_len, FALSE)
                    IN r.ok /\ r.n >= 1 /\ r.n <= buf_len

\* a range starting inside the first chunk and ending inside a later one has
\* been collected over several reads, on a stream that had a chunk cached
C10_Witness ==
    /\ vs.open
    /\ acc.from > 0
    /\ Len(acc.bytes) >= 2
    /\ \E i \in 1..Len(vs.audio_entries) :
          /\ acc.from < vs.audio_entries[i].virtual_offset
          /\ vs.audio_entries[i].virtual_offset < acc.from + Len(acc.bytes)

\* open of the file as it is now, followed by read_chunk of every entry of
\* its index, all return Ok
EveryOperationSucceeds(dk) ==
    LET o == ReaderOpen(dk, MASTER_KEY)
    IN /\ o.ok
       /\ \A i \in 1..Len(o.reader.index.entries) :
             ReadChunk(o.reader, dk, o.reader.index.entries[i], FALSE).ok

\* C2: after a change of one file-header field other than header_crc32 and
\* the reserved fields, of one chunk-header field, of a ciphertext byte or of
\* a tag byte of a packed file, open or a read_chunk returns an error.
C2_TamperDetection ==
    tamper.kind # "none" => ~EveryOperationSucceeds(disk)

\* the chunk header at the changed record still passes the checks of
\* ChunkRecordHeaderV1::read_from
PassesStructuralChecks(dk) ==
    ChunkRecordHeaderReadFrom(HeaderBytesAt(dk, tamper.off)).ok

\* the result of reading the changed record: open for the Index record,
\* read_chunk through the entry pointing at it for any other
ReadOfChangedRecord(dk) ==
    LET o == ReaderOpen(dk, MASTER_KEY)
    IN IF ~o.ok THEN [ok |-> FALSE, err |-> o.err]
       ELSE LET es == SelectSeq(o.reader.index.entries,
                                LAMBDA e : e.file_offset = tamper.off)
                r == ReadChunk(o.reader, dk, es[1], FALSE)
            IN IF es = <<>> THEN [ok |-> TRUE, err |-> ""]
               ELSE [ok |-> r.ok, err |-> r.err]

\* the changed chunk-header field is one the reader does not check itself
ChangedUncheckedField ==
    /\ tamper.kind = "chunk_header"
    /\ tamper.field \notin {"chunk_type", "magic", "header_len", "header_version"}
    /\ PassesStructuralChecks(disk)

RecordPastEnd(dk) ==
    tamper.off + RecordLen(HeaderBytesAt(dk, tamper.off).plain_len) > FileLen(dk)

SelectedMeta(kind) == LatestOf(MetaEntriesByKind(rd.r.index, kind))

\* C11: read_latest_meta(kind) returns Ok(None) and makes no read_chunk call,
\* even when every seek and read would fail, if the selected entry's plain_len
\* is above the cap of kind (Tags 256 KiB, Lyrics 2 MiB, CoverArt 64 MiB); if
\* plain_len equals the cap the chunk is read: the call returns what read_chunk
\* returns for that entry.
C11_MetaSizeCaps ==
    res.op = "read_latest_meta" /\ SelectedMeta(res.kind).some =>
        LET e == SelectedMeta(res.kind).entry
            cap == CASE res.kind = "Tags" -> 256 * 1024
                     [] res.kind = "Lyrics" -> 2 * 1024 * 1024
                     [] res.kind = "CoverArt" -> 64 * 1024 * 1024
                     [] OTHER -> e.plain_len
            r == ReadChunk(rd.r, disk, e, res.io_fail = "read")
        IN /\ e.plain_len > cap => res.ok /\ ~res.some /\ res.reads = 0
           /\ e.plain_len = cap =>
                 /\ res.reads = 1 /\ res.ok = r.ok /\ res.err = r.err
                 /\ res.ok => res.some /\ res.plain = r.plain

\* an entry one byte above the cap asked for while the source fails every
\* seek and read
C11_Witness ==
    /\ res.op = "read_latest_meta" /\ res.kind = "CoverArt"
    /\ SelectedMeta("CoverArt").some
    /\ SelectedMeta("CoverArt").entry.plain_len = 64 * 1024 * 1024 + 1
    /\ res.io_fail = "read" /\ res.ok /\ ~res.some

\* the positions in the reader's index of the Meta entries of a kind
MetaPositions(kind) ==
    {i \in 1..Len(rd.r.index.entries) :
        /\ rd.r.index.entries[i].chunk_type = "Meta"
        /\ rd.r.index.entries[i].meta_kind = MetaKindAsU16(kind)}

\* the position of the entry with the greatest chunk_seq among ps
MaxSeqPosition(ps) ==
    CHOOSE i \in ps : \A j \in ps :
        rd.r.index.entries[j].chunk_seq <= rd.r.index.entries[i].chunk_seq

C13_MetaXorSelfInverse ==
    calc.fn = "xor_meta_in_place" =>
        /\ calc.n = 2 => calc.out = calc.args[3]
        /\ calc.n = 1 => /\ Len(calc.out) = Len(calc.args[3])
                         /\ \A j \in 1..Len(calc.out) : calc.out[j] # calc.args[3][j]

\* a buffer of more than two mask buffers restored by the second call
C13_Witness ==
    /\ calc.fn = "xor_meta_in_place" /\ calc.n = 2
    /\ Len(calc.args[3]) > 2 * XOR_MASK_LEN
    /\ calc.out = calc.args[3]

\* the write_meta_chunk calls of a kind that returned Ok, by position in mlog
OkMetaCalls(kind) == {i \in 1..Len(mlog) : mlog[i].kind = kind /\ mlog[i].ok}

\* the last of them
LastOkMetaCall(kind) == CHOOSE i \in OkMetaCalls(kind) : \A j \in OkMetaCalls(kind) : j <= i

\* the bytes of the write_audio_chunk calls that returned Ok, in call order
AudioWritten ==
    [i \in 1..Cardinality({j \in 1..Len(encLog) :
                             encLog[j].chunk_type = "Audio" /\ encLog[j].ok}) |-> 1]

\* C14: after write_meta_chunk(kind, data, chunk_flags) returned Ok for a
\* payload within the cap of kind, with or without FLAG_META_XOR, and finish
\* and open returned Ok, read_latest_meta(kind) returns the data of the last
\* such call of that kind, and unpack returns the audio bytes written.
C14_MetaRoundtrip ==
    /\ res.op = "read_latest_meta" /\ wst = "finished" /\ res.io_fail = "none"
    /\ OkMetaCalls(res.kind) # {}
    => (mlog[LastOkMetaCall(res.kind)].data.len <= MaxPlainLen(res.kind) =>
          /\ res.ok /\ res.some
          /\ res.plain = mlog[LastOkMetaCall(res.kind)].data
          /\ UnpackFromFurry(disk, MASTER_KEY).ok
          /\ UnpackFromFurry(disk, MASTER_KEY).out = AudioWritten)

\* a CoverArt payload of exactly the cap written with FLAG_META_XOR after an
\* audio chunk, and read back
C14_Witness ==
    /\ res.op = "read_latest_meta" /\ wst = "finished" /\ res.io_fail = "none"
    /\ res.kind = "CoverArt" /\ OkMetaCalls("CoverArt") # {}
    /\ mlog[LastOkMetaCall("CoverArt")].chunk_flags = FLAG_META_XOR
    /\ res.ok /\ res.some /\ res.plain = mlog[LastOkMetaCall("CoverArt")].data
    /\ Len(AudioWritten) = 1

\* data XORed with the META mask of chunk_seq under the writer's meta_xor_key
Masked(plain, chunk_seq) ==
    [plain EXCEPT !.bytes = XorMetaInPlace(w.keys.meta_xor_key, chunk_seq, @)]

\* C15: for a write_meta_chunk call with FLAG_META_XOR in chunk_flags, the
\* plaintext handed to the AEAD is the data XORed with the META mask of the
\* chunk's seq, and read_latest_meta, through read_chunk, returns the
\* decrypted plaintext of an entry with FLAG_META_XOR XORed with that mask
\* again, that is, the data.  (Stated for payloads held byte by byte.)
C15_MetaMaskLayer ==
    /\ \A i \in 1..Len(mlog) :
          /\ mlog[i].chunk_flags = FLAG_META_XOR
          /\ mlog[i].data.len = Len(mlog[i].data.bytes)
          => mlog[i].handed = Masked(mlog[i].data, mlog[i].chunk_seq)
    /\ /\ res.op = "read_latest_meta" /\ res.ok /\ res.some
       /\ SelectedMeta(res.kind).entry.chunk_flags = FLAG_META_XOR
       /\ res.plain.len = Len(res.plain.bytes)
       => \E i \in 1..Len(mlog) :
             /\ mlog[i].chunk_seq = SelectedMeta(res.kind).entry.chunk_seq
             /\ res.plain = Masked(mlog[i].handed, mlog[i].chunk_seq)

\* the error the header checks call for, "" when the three fields are right
HeaderCheckError(b) ==
    IF b.magic # "FURRYFMT" THEN "InvalidMagic"
    ELSE IF b.version # 1 THEN "UnsupportedVersion"
    ELSE IF b.header_size # 96 THEN "InvalidHeaderSize"
    ELSE ""

\* the I/O calls of open that come after the three header checks
AfterHeaderChecks == {"none", "fields", "seek_index", "chunk_header", "ciphertext", "tag"}

\* C16: when no read before them fails, open returns InvalidMagic for a wrong
\* magic, else UnsupportedVersion for a version other than 1, else
\* InvalidHeaderSize for a header_size other than 96, whatever the other
\* fields are; it has then not derived keys nor sought to index_offset, and a
\* source that fails every later call does not change the result.
C16_HeaderValidationOrder ==
    /\ res.op = "open" /\ HeaderCheckError(disk.hdr) # ""
    /\ res.io_fail \in AfterHeaderChecks
    => /\ ~res.ok /\ res.err = HeaderCheckError(disk.hdr)
       /\ ~res.did.derived /\ ~res.did.sought
       /\ ~rd.open

\* magic, version and header_size all wrong, and a source on which the seek
\* to index_offset would fail: InvalidMagic
C16_Witness ==
    /\ res.op = "open" /\ res.io_fail = "seek_index"
    /\ tamper.kind = "checked_fields" /\ tamper.field = CheckedHeaderFields
    /\ res.err = "InvalidMagic"

\* C17: a wrong fixed-size field is reported as InvalidHeaderSize by every
\* decoder: open on a file whose header_size was changed, and the read of a
\* record whose header_len was changed (magic, header_version and chunk_type
\* being as written), fail with InvalidHeaderSize.
C17_WrongSizeIsInvalidHeaderSize ==
    /\ tamper.kind = "header" /\ tamper.field = "header_size" =>
          LET o == ReaderOpen(disk, MASTER_KEY) IN ~o.ok /\ o.err = "InvalidHeaderSize"
    /\ tamper.kind = "chunk_header" /\ tamper.field = "header_len" =>
          LET r == ReadOfChangedRecord(disk) IN ~r.ok /\ r.err = "InvalidHeaderSize"

\* C18: on a payload with the FURRYIDX magic and version 1, parse returns Ok
\* exactly when the payload is 32 + 48 * entry_count bytes long and every
\* entry has a chunk_type byte in 1..4, and CorruptIndex otherwise; the
\* index it returns, and every index built by new and add_entry, has
\* header.entry_count equal to the number of its entries.
C18_IndexLengthEquation ==
    /\ calc.fn = "parse" /\ calc.n = 1 =>
          LET p == calc.args[1]
              b == calc.args[1].idx[1]
              r == calc.out[1]
          IN b.magic = "FURRYIDX" /\ b.version = 1 =>
                /\ r.ok <=> /\ p.len = 32 + 48 * b.entry_count
                            /\ \A i \in 1..Len(b.entries) : b.entries[i].chunk_type \in 1..4
                /\ ~r.ok => r.err = "CorruptIndex"
                /\ r.ok => r.index.header.entry_count = Len(r.index.entries)
    /\ calc.fn = "build" => calc.out[1].header.entry_count = Len(calc.out[1].entries)

\* a payload of two known entries whose header announces three is rejected
C18_Witness ==
    /\ calc.fn = "parse" /\ calc.n = 1
    /\ calc.args[1].idx[1].magic = "FURRYIDX" /\ calc.args[1].idx[1].version = 1
    /\ calc.args[1].idx[1].entry_count = 3
    /\ Len(calc.args[1].idx[1].entries) = 2
    /\ \A i \in 1..2 : calc.args[1].idx[1].entries[i].chunk_type \in 1..4
    /\ calc.args[1].len = 32 + 48 * 2
    /\ ~calc.out[1].ok /\ calc.out[1].err = "CorruptIndex"

\* the chunk header on disk at the offset index_offset was redirected to
RedirectedTo == HeaderBytesAt(disk, tamper.off)

\* C19: when index_offset points at a well-formed record of type Audio, Meta
\* or Padding, authentic or not, open returns CorruptIndex without having read
\* the record's ciphertext or attempted decryption, whatever key it is given
\* and even on a source on which the reads of ciphertext and tag would fail.
C19_IndexOffsetNotIndex ==
    /\ res.op = "open" /\ tamper.kind = "index_offset"
    /\ res.io_fail \in {"none", "ciphertext", "tag"}
    => /\ ~res.ok /\ res.err = "CorruptIndex"
       /\ ~res.did.ct_read /\ ~res.did.decrypted
       /\ ~rd.open

\* index_offset points at the authentic Meta record, the right key is used
\* and the read of the ciphertext would fail: CorruptIndex
C19_Witness ==
    /\ res.op = "open" /\ tamper.kind = "index_offset"
    /\ ChunkTypeFromU8(RedirectedTo.chunk_type) = "Meta"
    /\ RedirectedTo.plain_len > 0
    /\ res.master_key = MASTER_KEY /\ res.io_fail = "ciphertext"
    /\ res.err = "CorruptIndex"

\* C20: open of an unchanged packed file, one that the writer's master key
\* opens, with another master key and on a source without I/O errors fails
\* with the AEAD error, raised by the decryption of the index, and returns
\* no reader and no index.
C20_WrongMasterKey ==
    /\ res.op = "open" /\ tamper.kind = "none" /\ res.io_fail = "none"
    /\ res.master_key # MASTER_KEY
    /\ ReaderOpen(disk, MASTER_KEY).ok
    => /\ ~res.ok /\ res.err = "Aead" /\ res.did.decrypted
       /\ ~rd.open /\ rd.r = NoReader /\ rd.r.index.entries = <<>>

\* a packed file with index entries, which the writer's key opens, opened
\* with the other key
C20_Witness ==
    /\ res.op = "open" /\ tamper.kind = "none" /\ res.io_fail = "none"
    /\ res.master_key # MASTER_KEY
    /\ ReaderOpen(disk, MASTER_KEY).ok
    /\ ReaderOpen(disk, MASTER_KEY).reader.index.entries # <<>>
    /\ res.err = "Aead"

\* C21: failure aborts writing.  Once a write_audio_chunk, write_meta_chunk
\* or write_padding_chunk call made by pack_to_furry has failed, the writer
\* encrypts and writes no further chunk and no index (the failed call is the
\* last entry of the log), and pack_to_furry does not return Ok.
C21_FailureAbortsWriting ==
    /\ \A i \in 1..Len(encLog) : ~encLog[i].ok => i = Len(encLog)
    /\ pk.pc = "done" => \A i \in 1..Len(encLog) : encLog[i].ok

\* C22: reader independence.  Two FurryReaders opened on the same file
\* through distinct handles, with the steps of their read_chunk calls
\* interleaved in any order: every call that has returned, on either reader
\* and for any index entry, returned what read_chunk of a single reader used
\* alone on the file returns for that entry.
C22_ReaderIndependence ==
    \A i \in Readers :
        rs[i].done =>
            LET alone == ReadChunk(ReaderOpen(disk, MASTER_KEY).reader, disk, rs[i].entry, FALSE)
            IN /\ rs[i].out.ok = alone.ok
               /\ rs[i].out.err = alone.err
               /\ rs[i].out.plain = alone.plain

\* a call of reader 1 on an Audio entry has returned its plaintext after
\* steps of a call of reader 2 on another entry fell into it, and reader 2
\* is still in the middle of that call
C22_Witness ==
    /\ rs[1].done /\ rs[1].overlapped /\ rs[1].out.ok
    /\ rs[1].entry.chunk_type = "Audio" /\ rs[1].out.plain.len > 0
    /\ rs[2].pc = "header"
    /\ rs[2].entry.file_offset # rs[1].entry.file_offset

\* the virtual offsets of the Audio chunks of the stream that overlap the
\* byte range [from, from + n), in order
ChunksOverlapping(from, n) ==
    LET es == vs.audio_entries
        hit == {i \in 1..Len(es) : /\ es[i].virtual_offset < from + n
                                   /\ from < es[i].virtual_offset + es[i].plain_len}
    IN [k \in 1..Cardinality(hit) |->
          es[CHOOSE i \in hit : Cardinality({j \in hit : j < i}) = k - 1].virtual_offset]

\* the stream was opened, positioned at S5Seek with nothing cached, and
\* S5ReadLen bytes were read
S5Done ==
    /\ vs.open /\ IsS3File
    /\ ~dlog.fresh /\ dlog.cold
    /\ acc.from = S5Seek /\ Len(acc.bytes) = S5ReadLen

\* the cached chunk is the plaintext of the one Audio entry at cache_start
CacheIsOneChunk ==
    vs.cached =>
        /\ Cardinality({i \in 1..Len(vs.audio_entries) :
                           vs.audio_entries[i].virtual_offset = vs.cache_start}) = 1
        /\ \E i \in 1..Len(vs.audio_entries) :
              /\ vs.audio_entries[i].virtual_offset = vs.cache_start
              /\ vs.cache_data = SubSeq(pk.input, vs.cache_start + 1,
                                        vs.cache_start + vs.audio_entries[i].plain_len)

\* the last read called read_chunk at most once, and only with the position
\* outside the interval of the chunk cached before the call
LoadOnlyOutsideCache ==
    sres.op = "read" =>
        /\ sres.loads \in {0, 1}
        /\ sres.loads = 1 =>
              /\ sres.before.position < sres.before.total_len
              /\ \/ ~sres.before.cached
                 \/ sres.before.position < sres.before.cache_start
                 \/ sres.before.position >=
                       sres.before.cache_start + Len(sres.before.cache_data)
        /\ (sres.loads = 0 /\ sres.ok /\ sres.before.position < sres.before.total_len) =>
              /\ sres.before.cached
              /\ sres.before.position >= sres.before.cache_start
              /\ sres.before.position <
                    sres.before.cache_start + Len(sres.before.cache_data)

\* C23 (as amended): single-chunk cache.  A VirtualAudioStream holds at most
\* one decrypted chunk; read calls read_chunk only when the position lies
\* outside the interval of the cached chunk; no chunk is decrypted twice
\* while the stream is read on without a seek, and a stream read from 0 to
\* audio_stream_len has decrypted each Audio chunk exactly once, in order.
\* Seeking to S5Seek and reading S5ReadLen bytes of the file of S3 returns
\* the bytes of the input and decrypts the chunks overlapping the range:
\* two, for 2000, 100 and chunks of 1024 bytes.
C23_SingleChunkCache ==
    /\ CacheIsOneChunk
    /\ LoadOnlyOutsideCache
    /\ \A i, j \in 1..Len(dlog.chunks) : i # j => dlog.chunks[i] # dlog.chunks[j]
    /\ (vs.open /\ dlog.fresh /\ vs.position >= vs.total_len) =>
          dlog.chunks = [i \in 1..Len(vs.audio_entries) |-> vs.audio_entries[i].virtual_offset]
    /\ S5Done =>
          /\ acc.bytes = SubSeq(pk.input, S5Seek + 1, S5Seek + S5ReadLen)
          /\ dlog.chunks = ChunksOverlapping(S5Seek, S5ReadLen)
          /\ Len(dlog.chunks) = 2

\* C23 as stated: seeking to S5Seek and reading S5ReadLen bytes of the file
\* of S3 decrypts exactly one chunk
C23_SeekReadDecryptsOneChunk ==
    S5Done => Len(dlog.chunks) = 1

\* the S5ReadLen bytes after S5Seek of the file of S3 have been read, and
\* the last read call was served from the cache without a read_chunk call
C23_Witness ==
    /\ S5Done
    /\ vs.position = S5Seek + S5ReadLen
    /\ vs.cached /\ vs.cache_start = S5ChunkSize * (S5Seek \div S5ChunkSize + 1)

\* the end of the Audio chunk of the stream s that covers its position
\* (the position itself when no chunk covers it)
ChunkEndAt(s) ==
    LET hit == {i \in 1..Len(s.audio_entries) :
                   /\ s.audio_entries[i].virtual_offset <= s.position
                   /\ s.position < s.audio_entries[i].virtual_offset
                                      + s.audio_entries[i].plain_len}
    IN IF hit = {} THEN s.position
       ELSE LET i == CHOOSE i \in hit : TRUE
            IN s.audio_entries[i].virtual_offset + s.audio_entries[i].plain_len

\* C24: the read step.  On a packed file a read(buf) that returns Ok returns
\* 0 exactly when position >= audio_stream_len or buf is empty; otherwise it
\* returns n = min(buf.len(), end of the Audio chunk covering position -
\* position) >= 1, hands out the n bytes of the input at position and
\* advances position by exactly n, so it never crosses a chunk boundary.  A
\* read returns an error only when the source does.
C24_ReadStep ==
    sres.op = "read" =>
        LET b == sres.before IN
        /\ ~sres.ok => sres.err = "Io" /\ b.position < b.total_len
        /\ sres.ok =>
              /\ sres.n = 0 <=> (b.position >= b.total_len \/ sres.buf_len = 0)
              /\ sres.n > 0 =>
                    /\ sres.n = Min(sres.buf_len, ChunkEndAt(b) - b.position)
                    /\ sres.n >= 1
                    /\ b.position + sres.n <= ChunkEndAt(b)
              /\ sres.bytes = SubSeq(pk.input, b.position + 1, b.position + sres.n)
              /\ vs.position = b.position + sres.n

\* a read with a buffer longer than what is left of the chunk returned the
\* rest of the chunk, with more of the stream behind it
C24_Witness ==
    /\ sres.op = "read" /\ sres.ok
    /\ sres.n >= 1 /\ sres.n < sres.buf_len
    /\ vs.position = ChunkEndAt(sres.before)
    /\ vs.position < vs.total_len
    /\ sres.before.position > 0

\* the target position of the last seek call, computed as an exact integer
ExactTarget ==
    CASE sres.whence = "Start" -> sres.offset
      [] sres.whence = "End" -> sres.before.total_len + sres.offset
      [] sres.whence = "Current" -> sres.before.position + sres.offset

\* C25: seek fails exactly when the target position, computed as an exact
\* integer, is negative (so SeekFrom::Start(o) succeeds for every unsigned o
\* of the width); on failure position is unchanged; on success position
\* equals the target, also beyond audio_stream_len.
C25_SeekExactTarget ==
    sres.op = "seek" =>
        /\ sres.ok <=> ExactTarget >= 0
        /\ ~sres.ok => vs.position = sres.before.position
        /\ sres.ok => vs.position = ExactTarget

\* C26: pack_to_furry terminates.  Every iteration of the audio loop that
\* stays in the loop has consumed input, and every iteration of the padding
\* loop that stays in the loop has reduced `remaining`, on which alone the
\* loop condition depends: both loops end after finitely many iterations,
\* for every PackOptions value.
C26_PackTerminates ==
    [][/\ (pk.pc = "audio" /\ pk'.pc = "audio") => pk'.in_pos > pk.in_pos
       /\ (pk.pc = "padding" /\ pk'.pc = "padding") => pk'.remaining < pk.remaining]_vars

\* the index entries of the open reader that point at the offset off
EntriesAt(off) ==
    {i \in 1..Len(rd.r.index.entries) : rd.r.index.entries[i].file_offset = off}

\* C27: chunk substitution is detected.  read_chunk(entry) succeeds only if
\* the record at entry.file_offset carries the chunk_seq, chunk_type and
\* plain_len of the entry; after two authentic records of the file were
\* exchanged, or one was copied over another, read_chunk of an entry whose
\* record was replaced returns an error.
C27_SubstitutionDetected ==
    (rd.open /\ res.op = "read_chunk" /\ res.ok) =>
        \A i \in EntriesAt(res.off) :
            LET e == rd.r.index.entries[i]
                h == ReadRecordAt(disk, res.off).header
            IN /\ h.chunk_seq = e.chunk_seq
               /\ h.chunk_type = e.chunk_type
               /\ h.plain_len = e.plain_len

\* a step in which a write_*_chunk call reached write_chunk_internal and
\* returned an error
FailedWriteStep ==
    /\ wst = "open" /\ wst' = "open" /\ pk.pc = "none"
    /\ Len(encLog') = Len(encLog) + 1
    /\ ~encLog'[Len(encLog')].ok

\* C28: a write_*_chunk call that returns an error adds no index entry and
\* leaves entry_count, audio_stream_len and current_offset unchanged; only
\* chunk_seq has advanced, and current_offset still equals the offset at
\* which the sink will place the next byte written (the length of the file).
C28_FailedWriteFrame ==
    [][FailedWriteStep =>
          /\ w'.index = w.index
          /\ w'.current_offset = w.current_offset
          /\ w'.chunk_seq = w.chunk_seq + 1
          /\ w'.header = w.header /\ w'.keys = w.keys
          /\ w'.current_offset = FileLen(disk')]_vars

\* open has been called on the file of the state
OpenedThisFile == res.op = "open" /\ pk.pc = "none"

\* the last three pieces of the file are a whole Index record
EndsWithIndexRecord(dk) ==
    LET n == Len(dk.body)
    IN /\ n >= 3
       /\ dk.body[n - 2].k = "H" /\ dk.body[n - 1].k = "C" /\ dk.body[n].k = "T"
       /\ ChunkTypeFromU8(dk.body[n - 2].v.chunk_type) = "Index"

\* C29 as stated: a file whose writer was created but never completed finish
\* cannot be opened: its header still has index_offset = 0 and
\* FurryReader::open on it returns an error.
C29_UnfinishedNeverOpens ==
    (OpenedThisFile /\ wst # "finished") =>
        /\ disk.hdr.index_offset = 0
        /\ ~res.ok

\* C29: until finish has written the whole Index record and reached the
\* header rewrite, the header on disk has index_offset = 0, and open on a
\* file with index_offset = 0 fails (the bytes at offset 0 are the file
\* magic, not a chunk header); open succeeds only on a file whose header
\* holds the index_offset that finish set.
C29_UnpatchedNeverOpens ==
    /\ (wst = "open" /\ pk.pc = "none") => disk.hdr.index_offset = 0
    /\ (wst = "dropped" /\ pk.pc = "none" /\ disk.hdr.index_offset # 0) =>
          /\ EndsWithIndexRecord(disk)
          /\ disk.hdr.index_offset = w.header.index_offset
    /\ (OpenedThisFile /\ disk.hdr.index_offset = 0) =>
          ~res.ok /\ res.err = "InvalidChunkMagic"
    /\ (OpenedThisFile /\ res.ok) =>
          /\ wst \in {"finished", "dropped"}
          /\ disk.hdr.index_offset = w.header.index_offset
          /\ EndsWithIndexRecord(disk)

\* open was called on a file with chunks in it before finish was called,
\* and failed
C29_Witness ==
    /\ OpenedThisFile /\ wst = "open" /\ ~res.ok
    /\ Len(w.index.entries) > 0

\* finish returned an error and the file opens
C29_FailedFinishOpens == OpenedThisFile /\ wst = "dropped" /\ res.ok

\* the plaintext the writer encrypted into the record at file_offset
WrittenPlain(dk, file_offset) ==
    LET at == {i \in 1..Len(dk.body) :
                  dk.body[i].k = "C" /\ PieceStart(dk.body, i) = file_offset + CHUNK_HEADER_LEN}
    IN IF at = {} THEN <<>> ELSE dk.body[CHOOSE i \in at : TRUE].v.plain.bytes

\* bytes are the bytes of the audio stream of the file at position from:
\* bytes of the packed input, or of a chunk whose entry covers the position
IsStreamBytes(s, from, bytes) ==
    IF pk.pc = "done"
    THEN /\ from + Len(bytes) <= Len(pk.input)
         /\ bytes = SubSeq(pk.input, from + 1, from + Len(bytes))
    ELSE \E i \in 1..Len(s.audio_entries) :
            LET e == s.audio_entries[i]
                at == from - e.virtual_offset
            IN /\ e.virtual_offset <= from
               /\ at + Len(bytes) <= e.plain_len
               /\ bytes = SubSeq(WrittenPlain(disk, e.file_offset), at + 1, at + Len(bytes))

\* C30: a read on a VirtualAudioStream that fails (chunk decryption or I/O
\* error, or no Audio entry covering the position) leaves position and the
\* cached chunk unchanged and copies nothing into the caller's buffer; a
\* later read that succeeds, after any seek, returns the bytes of the stream
\* at its position.
C30_FailedReadFrame ==
    /\ (sres.op = "read" /\ ~sres.ok) =>
          /\ vs = sres.before
          /\ sres.n = 0 /\ sres.bytes = <<>>
          /\ sres.err \in sres.errs
    /\ (sres.op = "read" /\ sres.ok /\ sres.errs # {}) =>
          /\ vs.position = sres.before.position + sres.n
          /\ sres.n = Len(sres.bytes)
          /\ sres.n > 0 => IsStreamBytes(sres.before, sres.before.position, sres.bytes)
          /\ (sres.buf_len > 0 /\ sres.before.position < vs.total_len) => sres.n > 0

\* a read of a damaged chunk has failed with a decryption error, and a
\* later read on the same stream has returned bytes
C30_Witness ==
    /\ sres.op = "read" /\ sres.ok /\ sres.n > 0
    /\ tamper.kind # "none"
    /\ "Aead" \in sres.errs
    /\ vs.cached

============================================================================
